---- MODULE Spec2Model ----
(***************************************************************************)
(* atomic_data<T0, N0> (samples/atomic_data.h): a value of type T0 behind  *)
(* a pointer that writers replace with a CAS, the replaced objects being   *)
(* recycled through a ring of 2*N0 pointers shared by every instance of    *)
(* the type.  Each shared-memory access of read / update_weak / update is  *)
(* one step of the calling thread; steps of different threads interleave   *)
(* (sequentially consistent interleaving; the fences are not steps).       *)
(* T0 is an unsigned counter.                                              *)
(***************************************************************************)
EXTENDS Integers, FiniteSets, Sequences, TLC

\* ---- bounds of the exploration ----------------------------------------
\* K: update calls of each writer of a client program
UpdatesPerWriter == 2
\* update() starts another update_weak attempt only while left is below this
MaxLeft == 4

Threads == {1, 2}
\* an activation of read / update_weak / update: the calls a thread makes
\* from its program run in the frame of its own number, a call made by the
\* functor of such a call in the frame Inner(t)
Inner(t) == t + Cardinality(Threads)
Frames == Threads \cup { Inner(t) : t \in Threads }
Cells == {1, 2}
MaxQueueSize == 2

\* pointers: 0 is nullptr, 1..N0 the objects allocated by init_static,
\* MaxQueueSize + c the object the constructor of cell c was given
Null == 0
Slots == 1..(MaxQueueSize + Cardinality(Cells))
InitialObject(c) == MaxQueueSize + c
\* a default-initialised "new T0" holds an indeterminate value
Indeterminate == {0, 7}

\* functors handed to update_weak / update and to read
\*   inc    (*data)++; return true
\*   veto   (*data)++; return false
\*   throw  (*data)++; throw
UpdateFunctors == {"inc", "veto", "throw"}
ReadFunctors == {"get", "throw"}

Rd(c, f) == [kind |-> "read", cell |-> c, fn |-> f]
Uw(c, f) == [kind |-> "update_weak", cell |-> c, fn |-> f]
Up(c, f) == [kind |-> "update", cell |-> c, fn |-> f]

Repeat(o, n) == [i \in 1..n |-> o]

\* the client programs explored: N0 and what each thread calls
Scenarios ==
  { \* a reader next to a writer
    [n |-> 1, prog |-> << <<Rd(1, "get")>>, Repeat(Up(1, "inc"), UpdatesPerWriter + 1) >>],
    \* W = 2 writers, K increments each
    [n |-> 1, prog |-> << Repeat(Up(1, "inc"), UpdatesPerWriter), Repeat(Up(1, "inc"), UpdatesPerWriter) >>],
    [n |-> 2, prog |-> << Repeat(Up(1, "inc"), UpdatesPerWriter), Repeat(Up(1, "inc"), UpdatesPerWriter) >>],
    \* functors that veto or throw
    [n |-> 2, prog |-> << <<Uw(1, "veto"), Uw(1, "inc")>>, <<Uw(1, "throw"), Up(1, "inc")>> >>],
    [n |-> 1, prog |-> << <<Rd(1, "throw"), Uw(1, "inc")>>, <<Up(1, "throw"), Up(1, "inc")>> >>],
    \* two cells of the type on the one queue
    [n |-> 1, prog |-> << <<Up(1, "inc"), Uw(2, "veto")>>, <<Up(2, "inc"), Rd(1, "get")>> >>]
  }

VARIABLES
  queue_size,   \* N0
  queue,        \* static T0* queue[array_size]
  left,         \* static atomic left
  right,        \* static atomic right
  counters,     \* counter_usage.counters[2]
  data,         \* data[c]: the atomic pointer of cell c
  content,      \* content[s]: the T0 stored in object s
  pc,           \* position of each frame
  op,           \* the call a thread is in: [kind, cell, fn]
  queue_left,   \* update_weak local
  queue_right,  \* update_weak local
  data_new,     \* update_weak local
  data_old,     \* update_weak local
  ticket,       \* counter_guard::queue_right
  dalloc,       \* deallocate_guard::data
  pos,          \* value returned by right.add(1) in ~deallocate_guard
  result,       \* outcome of the call in progress: "none","true","false","throw"
  rptr,         \* pointer handed to the functor of read
  rval,         \* value the functor of read saw
  prog,         \* prog[t]: the calls thread t makes, in order
  ip,           \* ip[t]: how many of them it has started
  committed,    \* committed[c]: incrementing calls on c that returned true
  barrier_seen, \* queue_right of the latest check_barrier that saw the counter at zero
  rseen,        \* rseen[t]: the value of the cell when the read of t loaded its pointer
  rlast,        \* rlast[t]: the value the previous read of t saw
  mutex_data,   \* mutex_data[c]: the T0 behind atomic_data_mutex::data of cell c
  mip,          \* mip[t]: how many calls of its program t has made on the mutex cells
  rets,         \* rets[t]: what the calls of t on atomic_data returned, in order
  mrets,        \* mrets[t]: what its calls on atomic_data_mutex returned
  nodes,        \* nodes[n]: the node behind atomic_node n of an atomic_list
  list_pc,      \* position of each thread in insert_after_weak / erase_after_weak
  locals,       \* locals[t]: it, value, node0, node_next, node1, node_after, ret, answer
  history       \* nodes successful inserts and erases returned, who locked a node

vars == << queue_size, queue, left, right, counters, data, content, pc, op,
           queue_left, queue_right, data_new, data_old, ticket, dalloc, pos,
           result, rptr, rval, prog, ip, committed, barrier_seen, rseen, rlast,
           mutex_data, mip, rets, mrets, nodes, list_pc, locals, history >>

\* what an observer of the reads keeps
observed == << rseen, rlast >>

\* the mutex cells and the record of what calls returned
reference == << mutex_data, mip, rets, mrets >>

\* an atomic_list and the threads working on it
listvars == << nodes, list_pc, locals, history >>

shared == << queue_size, queue, left, right, counters, data, content >>

\* array_size as it would be with a queue of N0 pointers
array_size_single == queue_size

array_size == 2 * queue_size

NoOp == [kind |-> "none", cell |-> 0, fn |-> "none"]

\* counter_t::counter_index
counter_index(r) == IF (r % array_size) < queue_size THEN 1 ELSE 0

\* counter_t::is_used
is_used(r) == counters[1 - counter_index(r)] > 0

\* ---- construction ------------------------------------------------------
\* the cells after construction, the client program being one of S
InitCells(S) ==
  /\ \E sc \in S :
       /\ queue_size = sc.n
       /\ prog = sc.prog
  /\ \E g \in Indeterminate :
       content = [s \in Slots |-> IF s <= queue_size THEN g ELSE 0]
  /\ queue = [i \in 0..(2 * MaxQueueSize - 1) |-> IF i < queue_size THEN i + 1 ELSE Null]
  /\ left = 0
  /\ right = queue_size
  /\ counters = [i \in {0, 1} |-> 0]
  /\ data = [c \in Cells |-> InitialObject(c)]
  /\ pc = [t \in Frames |-> "idle"]
  /\ op = [t \in Frames |-> NoOp]
  /\ queue_left = [t \in Frames |-> 0]
  /\ queue_right = [t \in Frames |-> 0]
  /\ data_new = [t \in Frames |-> Null]
  /\ data_old = [t \in Frames |-> Null]
  /\ ticket = [t \in Frames |-> 0]
  /\ dalloc = [t \in Frames |-> Null]
  /\ pos = [t \in Frames |-> 0]
  /\ result = [t \in Frames |-> "none"]
  /\ rptr = [t \in Frames |-> Null]
  /\ rval = [t \in Frames |-> 0]
  /\ ip = [t \in Threads |-> 0]
  /\ committed = [c \in Cells |-> 0]
  /\ barrier_seen = 0
  /\ rseen = [t \in Threads |-> 0]
  /\ rlast = [t \in Threads |-> 0]
  /\ mutex_data = [c \in Cells |-> 0]
  /\ mip = [t \in Threads |-> 0]
  /\ rets = [t \in Threads |-> << >>]
  /\ mrets = [t \in Threads |-> << >>]

\* the state after construction when the program has no atomic_list
InitOf(S) ==
  /\ InitCells(S)
  /\ nodes = << >>
  /\ list_pc = << >>
  /\ locals = << >>
  /\ history = << >>

Init == InitOf(Scenarios)

\* ---- a thread starts the next call of its program ----------------------
Call(t) ==
  /\ pc[t] = "idle"
  /\ ip[t] < Len(prog[t])
  /\ ip' = [ip EXCEPT ![t] = @ + 1]
  /\ op' = [op EXCEPT ![t] = prog[t][ip[t] + 1]]
  /\ pc' = [pc EXCEPT ![t] = IF prog[t][ip[t] + 1].kind = "read" THEN "r_tick" ELSE "uw_left"]
  /\ UNCHANGED << shared, queue_left, queue_right, data_new, data_old, ticket,
                  dalloc, pos, result, rptr, rval, prog, committed, barrier_seen >>

\* ---- read --------------------------------------------------------------
\* ReadTicket as it would be if read waited for writers at the barrier
ReadTicket_waits(t) ==
  /\ pc[t] = "r_tick"
  /\ \A w \in Threads : pc[w] # "uw_bar"
  /\ ticket' = [ticket EXCEPT ![t] = right]
  /\ pc' = [pc EXCEPT ![t] = "r_inc"]
  /\ UNCHANGED << shared, op, queue_left, queue_right, data_new, data_old,
                  dalloc, pos, result, rptr, rval, prog, ip, committed, barrier_seen >>

\* counter_guard(): queue_right{ right.load() }
ReadTicket(t) ==
  /\ pc[t] = "r_tick"
  /\ ticket' = [ticket EXCEPT ![t] = right]
  /\ pc' = [pc EXCEPT ![t] = "r_inc"]
  /\ UNCHANGED << shared, op, queue_left, queue_right, data_new, data_old,
                  dalloc, pos, result, rptr, rval, prog, ip, committed, barrier_seen >>

\* counter_guard(): counter_usage.inc( queue_right )
ReadInc(t) ==
  /\ pc[t] = "r_inc"
  /\ counters' = [counters EXCEPT ![counter_index(ticket[t])] = @ + 1]
  /\ pc' = [pc EXCEPT ![t] = "r_load"]
  /\ UNCHANGED << queue_size, queue, left, right, data, content, op, queue_left,
                  queue_right, data_new, data_old, ticket, dalloc, pos, result,
                  rptr, rval, prog, ip, committed, barrier_seen >>

\* data.load()
ReadLoad(t) ==
  /\ pc[t] = "r_load"
  /\ rptr' = [rptr EXCEPT ![t] = data[op[t].cell]]
  /\ pc' = [pc EXCEPT ![t] = "r_fn"]
  /\ UNCHANGED << shared, op, queue_left, queue_right, data_new, data_old, ticket,
                  dalloc, pos, result, rval, prog, ip, committed, barrier_seen >>

\* fn( p ): the functor reads the object, then returns or throws
ReadFn(t) ==
  /\ pc[t] = "r_fn"
  /\ rval' = [rval EXCEPT ![t] = content[rptr[t]]]
  /\ result' = [result EXCEPT ![t] = IF op[t].fn = "throw" THEN "throw" ELSE "true"]
  /\ pc' = [pc EXCEPT ![t] = "r_dec"]
  /\ UNCHANGED << shared, op, queue_left, queue_right, data_new, data_old, ticket,
                  dalloc, pos, rptr, prog, ip, committed, barrier_seen >>

\* ReadDec as it would be if the guard did not keep its ticket and
\* decremented the counter right maps to now
ReadDec_current(t) ==
  /\ pc[t] = "r_dec"
  /\ counters' = [counters EXCEPT ![counter_index(right)] = @ - 1]
  /\ pc' = [pc EXCEPT ![t] = "idle"]
  /\ op' = [op EXCEPT ![t] = NoOp]
  /\ ticket' = [ticket EXCEPT ![t] = 0]
  /\ rptr' = [rptr EXCEPT ![t] = Null]
  /\ rval' = [rval EXCEPT ![t] = 0]
  /\ result' = [result EXCEPT ![t] = "none"]
  /\ UNCHANGED << queue_size, queue, left, right, data, content, queue_left,
                  queue_right, data_new, data_old, dalloc, pos, prog, ip,
                  committed, barrier_seen >>

\* ~counter_guard(), then the call is over
ReadDec(t) ==
  /\ pc[t] = "r_dec"
  /\ counters' = [counters EXCEPT ![counter_index(ticket[t])] = @ - 1]
  /\ pc' = [pc EXCEPT ![t] = "idle"]
  /\ op' = [op EXCEPT ![t] = NoOp]
  /\ ticket' = [ticket EXCEPT ![t] = 0]
  /\ rptr' = [rptr EXCEPT ![t] = Null]
  /\ rval' = [rval EXCEPT ![t] = 0]
  /\ result' = [result EXCEPT ![t] = "none"]
  /\ UNCHANGED << queue_size, queue, left, right, data, content, queue_left,
                  queue_right, data_new, data_old, dalloc, pos, prog, ip,
                  committed, barrier_seen >>

\* ---- update_weak -------------------------------------------------------
\* leaving update_weak with the given outcome before anything was allocated
Fail(t) ==
  /\ result' = [result EXCEPT ![t] = "false"]
  /\ pc' = [pc EXCEPT ![t] = "uw_ret"]

\* auto queue_left = left.load()
LoadLeft(t) ==
  /\ pc[t] = "uw_left"
  /\ queue_left' = [queue_left EXCEPT ![t] = left]
  /\ pc' = [pc EXCEPT ![t] = "uw_right"]
  /\ UNCHANGED << shared, op, queue_right, data_new, data_old, ticket, dalloc,
                  pos, result, rptr, rval, prog, ip, committed, barrier_seen >>

\* check_barrier: is_barrier
is_barrier(l) == (l % queue_size) = 0

\* LoadRight as it would be if update_weak did not call check_barrier
LoadRight_unchecked(t) ==
  /\ pc[t] = "uw_right"
  /\ queue_right' = [queue_right EXCEPT ![t] = right]
  /\ IF queue_left[t] = right
       THEN Fail(t)
       ELSE /\ pc' = [pc EXCEPT ![t] = "uw_cas"]
            /\ UNCHANGED result
  /\ UNCHANGED << shared, op, queue_left, data_new, data_old, ticket, dalloc,
                  pos, rptr, rval, prog, ip, committed, barrier_seen >>

\* LoadRight as it would be if check_barrier did not make sure that all
\* elements are back in the queue
LoadRight_nogap(t) ==
  /\ pc[t] = "uw_right"
  /\ queue_right' = [queue_right EXCEPT ![t] = right]
  /\ IF queue_left[t] = right
       THEN Fail(t)
       ELSE /\ pc' = [pc EXCEPT ![t] = IF is_barrier(queue_left[t]) THEN "uw_bar" ELSE "uw_cas"]
            /\ UNCHANGED result
  /\ UNCHANGED << shared, op, queue_left, data_new, data_old, ticket, dalloc,
                  pos, rptr, rval, prog, ip, committed, barrier_seen >>

\* LoadRight as it would be if check_barrier let one element of the previous
\* lap be outstanding
LoadRight_slack(t) ==
  /\ pc[t] = "uw_right"
  /\ queue_right' = [queue_right EXCEPT ![t] = right]
  /\ IF queue_left[t] = right
       THEN Fail(t)
       ELSE IF is_barrier(queue_left[t])
              THEN IF right - queue_left[t] < queue_size - 1
                     THEN Fail(t)
                     ELSE /\ pc' = [pc EXCEPT ![t] = "uw_bar"]
                          /\ UNCHANGED result
              ELSE /\ pc' = [pc EXCEPT ![t] = "uw_cas"]
                   /\ UNCHANGED result
  /\ UNCHANGED << shared, op, queue_left, data_new, data_old, ticket, dalloc,
                  pos, rptr, rval, prog, ip, committed, barrier_seen >>

\* LoadRight as it would be if check_barrier compared the gap with array_size
LoadRight_ring(t) ==
  /\ pc[t] = "uw_right"
  /\ queue_right' = [queue_right EXCEPT ![t] = right]
  /\ IF queue_left[t] = right
       THEN Fail(t)
       ELSE IF is_barrier(queue_left[t])
              THEN IF right - queue_left[t] < array_size
                     THEN Fail(t)
                     ELSE /\ pc' = [pc EXCEPT ![t] = "uw_bar"]
                          /\ UNCHANGED result
              ELSE /\ pc' = [pc EXCEPT ![t] = "uw_cas"]
                   /\ UNCHANGED result
  /\ UNCHANGED << shared, op, queue_left, data_new, data_old, ticket, dalloc,
                  pos, rptr, rval, prog, ip, committed, barrier_seen >>

\* auto queue_right = right.load(); the empty-queue test; and the part of
\* check_barrier that only looks at the two loaded values
LoadRight(t) ==
  /\ pc[t] = "uw_right"
  /\ queue_right' = [queue_right EXCEPT ![t] = right]
  /\ IF queue_left[t] = right
       THEN Fail(t)
       ELSE IF is_barrier(queue_left[t])
              THEN IF right - queue_left[t] < queue_size
                     THEN Fail(t)
                     ELSE /\ pc' = [pc EXCEPT ![t] = "uw_bar"]
                          /\ UNCHANGED result
              ELSE /\ pc' = [pc EXCEPT ![t] = "uw_cas"]
                   /\ UNCHANGED result
  /\ UNCHANGED << shared, op, queue_left, data_new, data_old, ticket, dalloc,
                  pos, rptr, rval, prog, ip, committed, barrier_seen >>

\* CheckBarrier as it would be if update_weak waited at the barrier, loading
\* left and right again until the counter is zero
CheckBarrier_spin(t) ==
  /\ pc[t] = "uw_bar"
  /\ IF is_used(queue_right[t])
       THEN /\ pc' = [pc EXCEPT ![t] = "uw_left"]
            /\ UNCHANGED barrier_seen
       ELSE /\ pc' = [pc EXCEPT ![t] = "uw_cas"]
            /\ barrier_seen' = queue_right[t]
  /\ UNCHANGED << shared, op, queue_left, queue_right, data_new, data_old, ticket,
                  dalloc, pos, result, rptr, rval, prog, ip, committed >>

\* CheckBarrier as it would be if check_barrier did not wait for the usage
\* counter
CheckBarrier_open(t) ==
  /\ pc[t] = "uw_bar"
  /\ pc' = [pc EXCEPT ![t] = "uw_cas"]
  /\ barrier_seen' = queue_right[t]
  /\ UNCHANGED << shared, op, queue_left, queue_right, data_new, data_old, ticket,
                  dalloc, pos, result, rptr, rval, prog, ip, committed >>

\* CheckBarrier as it would be with one usage counter for the whole ring, so
\* that check_barrier waited for every registered thread
CheckBarrier_all(t) ==
  /\ pc[t] = "uw_bar"
  /\ IF counters[0] + counters[1] > 0
       THEN /\ Fail(t)
            /\ UNCHANGED barrier_seen
       ELSE /\ pc' = [pc EXCEPT ![t] = "uw_cas"]
            /\ barrier_seen' = queue_right[t]
            /\ UNCHANGED result
  /\ UNCHANGED << shared, op, queue_left, queue_right, data_new, data_old, ticket,
                  dalloc, pos, rptr, rval, prog, ip, committed >>

\* check_barrier: counter_usage.is_used( queue_right )
CheckBarrier(t) ==
  /\ pc[t] = "uw_bar"
  /\ IF is_used(queue_right[t])
       THEN /\ Fail(t)
            /\ UNCHANGED barrier_seen
       ELSE /\ pc' = [pc EXCEPT ![t] = "uw_cas"]
            /\ barrier_seen' = queue_right[t]
            /\ UNCHANGED result
  /\ UNCHANGED << shared, op, queue_left, queue_right, data_new, data_old, ticket,
                  dalloc, pos, rptr, rval, prog, ip, committed >>

\* AllocateCas as it would be with left.store( queue_left + 1 ) in place of
\* the CAS
AllocateCas_store(t) ==
  /\ pc[t] = "uw_cas"
  /\ left' = queue_left[t] + 1
  /\ pc' = [pc EXCEPT ![t] = "uw_new"]
  /\ UNCHANGED << queue_size, queue, right, counters, data, content, op,
                  queue_left, queue_right, data_new, data_old, ticket, dalloc,
                  pos, result, rptr, rval, prog, ip, committed, barrier_seen >>

\* AllocateCas as it would be with left.add( 1 ) in place of the CAS
AllocateCas_add(t) ==
  /\ pc[t] = "uw_cas"
  /\ left' = left + 1
  /\ pc' = [pc EXCEPT ![t] = "uw_new"]
  /\ UNCHANGED << queue_size, queue, right, counters, data, content, op,
                  queue_left, queue_right, data_new, data_old, ticket, dalloc,
                  pos, result, rptr, rval, prog, ip, committed, barrier_seen >>

\* AllocateCas as it would be with left.add( 1 ) and a test of the value it
\* returned in place of the CAS
AllocateCas_fetch(t) ==
  /\ pc[t] = "uw_cas"
  /\ left' = left + 1
  /\ IF left = queue_left[t]
       THEN /\ pc' = [pc EXCEPT ![t] = "uw_new"]
            /\ UNCHANGED result
       ELSE Fail(t)
  /\ UNCHANGED << queue_size, queue, right, counters, data, content, op,
                  queue_left, queue_right, data_new, data_old, ticket, dalloc,
                  pos, rptr, rval, prog, ip, committed, barrier_seen >>

\* left.compare_exchange_weak( queue_left, queue_left + 1 ): succeeds only if
\* left still has the loaded value, and may fail even then
AllocateCas(t) ==
  /\ pc[t] = "uw_cas"
  /\ \/ /\ left = queue_left[t]
        /\ left' = left + 1
        /\ pc' = [pc EXCEPT ![t] = "uw_new"]
        /\ UNCHANGED result
     \/ /\ Fail(t)
        /\ UNCHANGED left
  /\ UNCHANGED << queue_size, queue, right, counters, data, content, op,
                  queue_left, queue_right, data_new, data_old, ticket, dalloc,
                  pos, rptr, rval, prog, ip, committed, barrier_seen >>

\* T0 *data_new = queue[ queue_left % array_size ]
ReadQueue(t) ==
  /\ pc[t] = "uw_new"
  /\ data_new' = [data_new EXCEPT ![t] = queue[queue_left[t] % array_size]]
  /\ pc' = [pc EXCEPT ![t] = "uw_old"]
  /\ UNCHANGED << shared, op, queue_left, queue_right, data_old, ticket, dalloc,
                  pos, result, rptr, rval, prog, ip, committed, barrier_seen >>

\* T0 *data_old = data.load()
LoadData(t) ==
  /\ pc[t] = "uw_old"
  /\ data_old' = [data_old EXCEPT ![t] = data[op[t].cell]]
  /\ pc' = [pc EXCEPT ![t] = "uw_tick"]
  /\ UNCHANGED << shared, op, queue_left, queue_right, data_new, ticket, dalloc,
                  pos, result, rptr, rval, prog, ip, committed, barrier_seen >>

\* deallocate_guard dalloc{ data_new }: its counter_guard member loads right
GuardTicket(t) ==
  /\ pc[t] = "uw_tick"
  /\ ticket' = [ticket EXCEPT ![t] = right]
  /\ dalloc' = [dalloc EXCEPT ![t] = data_new[t]]
  /\ pc' = [pc EXCEPT ![t] = "uw_inc"]
  /\ UNCHANGED << shared, op, queue_left, queue_right, data_new, data_old, pos,
                  result, rptr, rval, prog, ip, committed, barrier_seen >>

\* ... and increments the counter of that half of the ring
GuardInc(t) ==
  /\ pc[t] = "uw_inc"
  /\ counters' = [counters EXCEPT ![counter_index(ticket[t])] = @ + 1]
  /\ pc' = [pc EXCEPT ![t] = "uw_copy"]
  /\ UNCHANGED << queue_size, queue, left, right, data, content, op, queue_left,
                  queue_right, data_new, data_old, ticket, dalloc, pos, result,
                  rptr, rval, prog, ip, committed, barrier_seen >>

\* *data_new = *data_old
Copy(t) ==
  /\ pc[t] = "uw_copy"
  /\ content' = [content EXCEPT ![data_new[t]] = content[data_old[t]]]
  /\ pc' = [pc EXCEPT ![t] = "uw_fn"]
  /\ UNCHANGED << queue_size, queue, left, right, counters, data, op, queue_left,
                  queue_right, data_new, data_old, ticket, dalloc, pos, result,
                  rptr, rval, prog, ip, committed, barrier_seen >>

\* ApplyFn as it would be if the functor were run on the current object
ApplyFn_inplace(t) ==
  /\ pc[t] = "uw_fn"
  /\ content' = [content EXCEPT ![data_old[t]] = @ + 1]
  /\ IF op[t].fn = "inc"
       THEN /\ pc' = [pc EXCEPT ![t] = "uw_pub"]
            /\ UNCHANGED result
       ELSE /\ pc' = [pc EXCEPT ![t] = "uw_rel"]
            /\ result' = [result EXCEPT ![t] = IF op[t].fn = "veto" THEN "false" ELSE "throw"]
  /\ UNCHANGED << queue_size, queue, left, right, counters, data, op, queue_left,
                  queue_right, data_new, data_old, ticket, dalloc, pos,
                  rptr, rval, prog, ip, committed, barrier_seen >>

\* ApplyFn as it would be without the guards: an exception leaves update_weak
\* at once
ApplyFn_unguarded(t) ==
  /\ pc[t] = "uw_fn"
  /\ content' = [content EXCEPT ![data_new[t]] = @ + 1]
  /\ IF op[t].fn = "inc"
       THEN /\ pc' = [pc EXCEPT ![t] = "uw_pub"]
            /\ UNCHANGED result
       ELSE /\ pc' = [pc EXCEPT ![t] = IF op[t].fn = "veto" THEN "uw_rel" ELSE "uw_ret"]
            /\ result' = [result EXCEPT ![t] = IF op[t].fn = "veto" THEN "false" ELSE "throw"]
  /\ UNCHANGED << queue_size, queue, left, right, counters, data, op, queue_left,
                  queue_right, data_new, data_old, ticket, dalloc, pos,
                  rptr, rval, prog, ip, committed, barrier_seen >>

\* if( ! fn( data_new ) ) return false;  -- or fn throws
ApplyFn(t) ==
  /\ pc[t] = "uw_fn"
  /\ content' = [content EXCEPT ![data_new[t]] = @ + 1]
  /\ IF op[t].fn = "inc"
       THEN /\ pc' = [pc EXCEPT ![t] = "uw_pub"]
            /\ UNCHANGED result
       ELSE /\ pc' = [pc EXCEPT ![t] = "uw_rel"]
            /\ result' = [result EXCEPT ![t] = IF op[t].fn = "veto" THEN "false" ELSE "throw"]
  /\ UNCHANGED << queue_size, queue, left, right, counters, data, op, queue_left,
                  queue_right, data_new, data_old, ticket, dalloc, pos,
                  rptr, rval, prog, ip, committed, barrier_seen >>

\* Publish as it would be with data.store( data_new ) in place of the CAS
Publish_store(t) ==
  /\ pc[t] = "uw_pub"
  /\ data' = [data EXCEPT ![op[t].cell] = data_new[t]]
  /\ dalloc' = [dalloc EXCEPT ![t] = data_old[t]]
  /\ result' = [result EXCEPT ![t] = "true"]
  /\ pc' = [pc EXCEPT ![t] = "uw_rel"]
  /\ UNCHANGED << queue_size, queue, left, right, counters, content, op,
                  queue_left, queue_right, data_new, data_old, ticket, pos,
                  rptr, rval, prog, ip, committed, barrier_seen >>

\* Publish as it would be without dalloc.reset( data_old )
Publish_noreset(t) ==
  /\ pc[t] = "uw_pub"
  /\ \/ /\ data[op[t].cell] = data_old[t]
        /\ data' = [data EXCEPT ![op[t].cell] = data_new[t]]
        /\ result' = [result EXCEPT ![t] = "true"]
     \/ /\ result' = [result EXCEPT ![t] = "false"]
        /\ UNCHANGED data
  /\ pc' = [pc EXCEPT ![t] = "uw_rel"]
  /\ UNCHANGED << queue_size, queue, left, right, counters, content, op, dalloc,
                  queue_left, queue_right, data_new, data_old, ticket, pos,
                  rptr, rval, prog, ip, committed, barrier_seen >>

\* data.compare_exchange_weak( data_old, data_new ), then dalloc.reset( data_old )
Publish(t) ==
  /\ pc[t] = "uw_pub"
  /\ \/ /\ data[op[t].cell] = data_old[t]
        /\ data' = [data EXCEPT ![op[t].cell] = data_new[t]]
        /\ dalloc' = [dalloc EXCEPT ![t] = data_old[t]]
        /\ result' = [result EXCEPT ![t] = "true"]
     \/ /\ result' = [result EXCEPT ![t] = "false"]
        /\ UNCHANGED << data, dalloc >>
  /\ pc' = [pc EXCEPT ![t] = "uw_rel"]
  /\ UNCHANGED << queue_size, queue, left, right, counters, content, op,
                  queue_left, queue_right, data_new, data_old, ticket, pos,
                  rptr, rval, prog, ip, committed, barrier_seen >>

\* ReleaseAdd as it would be if only a call that published gave an object back
ReleaseAdd_published(t) ==
  /\ pc[t] = "uw_rel"
  /\ pos' = [pos EXCEPT ![t] = right]
  /\ right' = IF result[t] = "true" THEN right + 1 ELSE right
  /\ pc' = [pc EXCEPT ![t] = IF result[t] = "true" THEN "uw_store" ELSE "uw_dec"]
  /\ UNCHANGED << queue_size, queue, left, counters, data, content, op,
                  queue_left, queue_right, data_new, data_old, ticket, dalloc,
                  result, rptr, rval, prog, ip, committed, barrier_seen >>

\* ~deallocate_guard(): right.add( 1 )
ReleaseAdd(t) ==
  /\ pc[t] = "uw_rel"
  /\ pos' = [pos EXCEPT ![t] = right]
  /\ right' = right + 1
  /\ pc' = [pc EXCEPT ![t] = "uw_store"]
  /\ UNCHANGED << queue_size, queue, left, counters, data, content, op,
                  queue_left, queue_right, data_new, data_old, ticket, dalloc,
                  result, rptr, rval, prog, ip, committed, barrier_seen >>

\* ReleaseStore as it would be if it stored at the new value of right
ReleaseStore_next(t) ==
  /\ pc[t] = "uw_store"
  /\ queue' = [queue EXCEPT ![(pos[t] + 1) % array_size] = dalloc[t]]
  /\ pc' = [pc EXCEPT ![t] = "uw_dec"]
  /\ UNCHANGED << queue_size, left, right, counters, data, content, op,
                  queue_left, queue_right, data_new, data_old, ticket, dalloc,
                  pos, result, rptr, rval, prog, ip, committed, barrier_seen >>

\* ~deallocate_guard(): queue[ ... % array_size ] = data
ReleaseStore(t) ==
  /\ pc[t] = "uw_store"
  /\ queue' = [queue EXCEPT ![pos[t] % array_size] = dalloc[t]]
  /\ pc' = [pc EXCEPT ![t] = "uw_dec"]
  /\ UNCHANGED << queue_size, left, right, counters, data, content, op,
                  queue_left, queue_right, data_new, data_old, ticket, dalloc,
                  pos, result, rptr, rval, prog, ip, committed, barrier_seen >>

\* ~counter_guard() of the deallocate_guard
GuardDec(t) ==
  /\ pc[t] = "uw_dec"
  /\ counters' = [counters EXCEPT ![counter_index(ticket[t])] = @ - 1]
  /\ pc' = [pc EXCEPT ![t] = "uw_ret"]
  /\ UNCHANGED << queue_size, queue, left, right, data, content, op, queue_left,
                  queue_right, data_new, data_old, ticket, dalloc, pos, result,
                  rptr, rval, prog, ip, committed, barrier_seen >>

\* the locals of a finished update_weak
ClearLocals(t) ==
  /\ queue_left' = [queue_left EXCEPT ![t] = 0]
  /\ queue_right' = [queue_right EXCEPT ![t] = 0]
  /\ data_new' = [data_new EXCEPT ![t] = Null]
  /\ data_old' = [data_old EXCEPT ![t] = Null]
  /\ ticket' = [ticket EXCEPT ![t] = 0]
  /\ dalloc' = [dalloc EXCEPT ![t] = Null]
  /\ pos' = [pos EXCEPT ![t] = 0]
  /\ result' = [result EXCEPT ![t] = "none"]

\* Return as it would be if update made a single attempt
Return_once(t) ==
  /\ pc[t] = "uw_ret"
  /\ pc' = [pc EXCEPT ![t] = "idle"]
  /\ committed' = IF result[t] = "true"
                    THEN [committed EXCEPT ![op[t].cell] = @ + 1]
                    ELSE committed
  /\ op' = [op EXCEPT ![t] = NoOp]
  /\ ClearLocals(t)
  /\ UNCHANGED << shared, rptr, rval, prog, ip, barrier_seen >>

\* update_weak returns (or its exception leaves it); a call of update_weak,
\* an update whose attempt returned true and an update left by an exception
\* are over
Return(t) ==
  /\ pc[t] = "uw_ret"
  /\ op[t].kind = "update_weak" \/ result[t] # "false"
  /\ pc' = [pc EXCEPT ![t] = "idle"]
  /\ committed' = IF result[t] = "true"
                    THEN [committed EXCEPT ![op[t].cell] = @ + 1]
                    ELSE committed
  /\ op' = [op EXCEPT ![t] = NoOp]
  /\ ClearLocals(t)
  /\ UNCHANGED << shared, rptr, rval, prog, ip, barrier_seen >>

\* update: while( ! update_weak( fn ) );
Retry(t) ==
  /\ pc[t] = "uw_ret"
  /\ op[t].kind = "update"
  /\ result[t] = "false"
  /\ left < MaxLeft
  /\ pc' = [pc EXCEPT ![t] = "uw_left"]
  /\ ClearLocals(t)
  /\ UNCHANGED << shared, op, rptr, rval, prog, ip, committed, barrier_seen >>

\* ---- the program -------------------------------------------------------
Step(t) ==
  \/ Call(t)
  \/ ReadTicket(t) \/ ReadInc(t) \/ ReadLoad(t) \/ ReadFn(t) \/ ReadDec(t)
  \/ LoadLeft(t) \/ LoadRight(t) \/ CheckBarrier(t) \/ AllocateCas(t)
  \/ ReadQueue(t) \/ LoadData(t) \/ GuardTicket(t) \/ GuardInc(t)
  \/ Copy(t) \/ ApplyFn(t) \/ Publish(t)
  \/ ReleaseAdd(t) \/ ReleaseStore(t) \/ GuardDec(t)
  \/ Return(t) \/ Retry(t)

Next ==
  /\ \E t \in Threads : Step(t)
  /\ UNCHANGED << observed, reference, listvars >>

Spec == Init /\ [][Next]_vars

\* ---- vocabulary of the properties --------------------------------------
\* thread t took a step
Stepped(t) == pc'[t] # pc[t]

\* thread r is running the functor of read on object s
Reading(r, s) == pc[r] = "r_fn" /\ rptr[r] = s

\* the step is a store of writer w into the object it allocated
WritesObject(w) == pc[w] \in {"uw_copy", "uw_fn"} /\ Stepped(w)

\* C2: the object handed to the functor of read holds the initial value or a
\* published one (the counter of a cell goes through 0, 1, 2, ... so these are
\* the values up to the current one), and no writer stores into that object
\* while the functor runs
ReaderSnapshot ==
  /\ [](\A r \in Threads : pc[r] = "r_dec" => rval[r] \in 0..content[data[op[r].cell]])
  /\ [][\A w \in Threads, r \in Threads :
          WritesObject(w) => ~Reading(r, data_new[w])]_vars

\* every thread has made all its calls and is back in its caller
Quiescent == \A t \in Threads : pc[t] = "idle" /\ ip[t] = Len(prog[t])

\* how many calls of the client program are o
CallsOf(o) == Cardinality({ x \in Threads \X (1..(UpdatesPerWriter + 1)) :
                            x[2] <= Len(prog[x[1]]) /\ prog[x[1]][x[2]] = o })

\* C1: when every call has returned, the counter of a cell is the number of
\* incrementing calls that returned true, and these include every update(inc):
\* with W writers calling update(inc) K times and nothing else it is W*K
NoLostUpdates ==
  Quiescent =>
    \A c \in Cells :
      /\ content[data[c]] = committed[c]
      /\ committed[c] >= CallsOf(Up(c, "inc"))
      /\ committed[c] <= CallsOf(Up(c, "inc")) + CallsOf(Uw(c, "inc"))

\* two writers, K calls of update(inc) each, have all returned
NoLostUpdates_witness ==
  /\ Quiescent
  /\ queue_size = 2
  /\ \A t \in Threads : prog[t] = Repeat(Up(1, "inc"), UpdatesPerWriter)
  /\ content[data[1]] = 2 * UpdatesPerWriter

\* C3: after check_barrier has seen the counter of the other half of the ring
\* at zero (with right = barrier_seen), that counter stays zero for as long as
\* right stays in the half it was in
BarrierDrain ==
  (barrier_seen > 0 /\ right - barrier_seen < queue_size)
    => counters[1 - counter_index(barrier_seen)] = 0

\* positions of the ring between left and right
FreeRange == left..(right - 1)

\* a position taken by right.add( 1 ) whose store has not happened yet
Pending(p) == \E t \in Threads : pc[t] = "uw_store" /\ pos[t] = p

Stored == { p \in FreeRange : ~Pending(p) }

At(p) == queue[p % array_size]

\* C4 as stated: no object twice in [left, right), none of them a cell's current
NoSlotDuplication_original ==
  /\ \A p \in FreeRange, q \in FreeRange : p # q => At(p) # At(q)
  /\ \A p \in FreeRange, c \in Cells : At(p) # data[c]

\* C4 amended: the same for the positions of [left, right) that have been
\* stored into; a position taken by right.add( 1 ) still holds what it held
\* two laps earlier until the store of ~deallocate_guard
NoSlotDuplication ==
  /\ \A p \in Stored, q \in Stored : p # q => At(p) # At(q)
  /\ \A p \in Stored, c \in Cells : At(p) # data[c] /\ At(p) # Null

\* two objects are free after an update published and returned the old one
NoSlotDuplication_witness ==
  /\ Cardinality(Stored) = 2
  /\ data[1] # InitialObject(1)
  /\ \E p \in Stored : At(p) = InitialObject(1)

\* C5 as stated: left <= right and right - left in [1, array_size]
QueueBounds_original == left <= right /\ right - left \in 1..array_size

\* C5 amended: left <= right and right - left in [0, array_size]; it is 0
\* when every object of the queue is held by a writer
QueueBounds == left <= right /\ right - left \in 0..array_size

\* both objects of a queue of two are held by writers
QueueBounds_witness == queue_size = 2 /\ right = left /\ left > 0

\* ---- where an object is ------------------------------------------------
IsCurrent(s) == \E c \in Cells : data[c] = s

\* allocated by a writer that has not published it
HeldByWriter(s) ==
  \E t \in Threads :
    \/ pc[t] = "uw_new" /\ At(queue_left[t]) = s
    \/ pc[t] \in {"uw_old", "uw_tick", "uw_inc", "uw_copy", "uw_fn", "uw_pub"} /\ data_new[t] = s
    \/ pc[t] \in {"uw_rel", "uw_store"} /\ result[t] # "true" /\ dalloc[t] = s

\* replaced as current by a writer that has not stored it into the queue yet
Replaced(s) ==
  \E t \in Threads : pc[t] \in {"uw_rel", "uw_store"} /\ result[t] = "true" /\ dalloc[t] = s

IsFree(s) == \E p \in Stored : At(p) = s

\* the objects that exist: N0 in the queue and one per cell
Live == { s \in Slots : s <= queue_size \/ s > MaxQueueSize }

Phase(s) ==
  IF IsCurrent(s) THEN "current"
  ELSE IF HeldByWriter(s) THEN "writer"
  ELSE IF Replaced(s) THEN "replaced"
  ELSE IF IsFree(s) THEN "free"
  ELSE "lost"

\* the claim has three places; an object on its way back to the queue counts as free
Phase3(s) == IF Phase(s) = "replaced" THEN "free" ELSE Phase(s)

\* C6 as stated: free -> in-use-by-writer -> current -> free and nothing else
SlotLifecycle_original ==
  [][\A s \in Live :
       Phase3(s)' # Phase3(s) =>
         << Phase3(s), Phase3(s)' >> \in
           { <<"free", "writer">>, <<"writer", "current">>, <<"current", "free">> }]_vars

\* C6 amended: an object is in exactly one place; it goes free -> writer,
\* writer -> current (publish), current -> replaced -> free (returned by the
\* writer that replaced it), and also writer -> free, taken only by the store
\* of a call that did not publish
SlotLifecycle ==
  /\ [](\A s \in Live :
          /\ Phase(s) # "lost"
          /\ Cardinality({ k \in 1..4 : << IsCurrent(s), HeldByWriter(s), Replaced(s), IsFree(s) >>[k] }) = 1)
  /\ [][\A s \in Live :
          Phase(s)' # Phase(s) =>
            \/ << Phase(s), Phase(s)' >> \in
                 { <<"free", "writer">>, <<"writer", "current">>,
                   <<"current", "replaced">>, <<"replaced", "free">> }
            \/ /\ << Phase(s), Phase(s)' >> = <<"writer", "free">>
               /\ \E t \in Threads : /\ pc[t] = "uw_store" /\ Stepped(t)
                                     /\ result[t] \in {"false", "throw"}
                                     /\ dalloc[t] = s]_vars

\* a vetoed call has put the object it had allocated back into the queue
SlotLifecycle_witness ==
  \E t \in Threads : /\ pc[t] = "uw_dec" /\ op[t].fn = "veto"
                     /\ IsFree(data_new[t])

\* ---- what other threads can see of a cell ------------------------------
Visible == [c \in Cells |-> << data[c], content[data[c]] >>]

\* C7: a step of a call changes the pointer of a cell or the value behind it
\* only if it is the successful publish CAS, after which the call returns
\* true; a call that fails has written only to the object it allocated, which
\* is not the current of any cell
FailedCallInvisible ==
  /\ [][\A t \in Threads :
          (Stepped(t) /\ ~(pc[t] = "uw_pub" /\ result'[t] = "true")) => Visible' = Visible]_vars
  /\ [](\A t \in Threads :
          (pc[t] \in {"uw_rel", "uw_store", "uw_dec", "uw_ret"} /\ result[t] # "true")
             => (pc[t] = "uw_ret" \/ ~IsCurrent(dalloc[t])))
  /\ [][\A t \in Threads :
          (pc[t] = "uw_ret" /\ result[t] # "true" /\ Stepped(t)) => committed' = committed]_vars

\* a vetoed call is about to return false; the object it incremented is not current
FailedCallInvisible_witness ==
  \E t \in Threads : /\ pc[t] = "uw_ret" /\ result[t] = "false" /\ op[t].fn = "veto"
                     /\ data_new[t] # Null
                     /\ ~IsCurrent(data_new[t])
                     /\ content[data_new[t]] = content[data[op[t].cell]] + 1

\* ---- guards ------------------------------------------------------------
\* allocated, right.add( 1 ) of the deallocate_guard not done yet
Holding(t) == pc[t] \in {"uw_new", "uw_old", "uw_tick", "uw_inc", "uw_copy",
                         "uw_fn", "uw_pub", "uw_rel"}

\* between the increment and the decrement of a counter_guard
Registered(t) == pc[t] \in {"r_load", "r_fn", "r_dec", "uw_copy", "uw_fn",
                            "uw_pub", "uw_rel", "uw_store", "uw_dec"}

\* C8: every allocation is matched by exactly one right.add( 1 ) and every
\* counter increment by exactly one decrement whichever way the call ends:
\* left trails right by N0 less the writers inside, the counters add up to
\* the calls inside, and both are back to N0 and zero when nobody is inside
ScopedRelease ==
  /\ right - left + Cardinality({ t \in Threads : Holding(t) }) = queue_size
  /\ counters[0] + counters[1] = Cardinality({ t \in Threads : Registered(t) })
  /\ counters[0] >= 0 /\ counters[1] >= 0
  /\ (\A t \in Threads : pc[t] \in {"idle", "uw_ret"}) => Cardinality(Stored) = queue_size

\* the functor of a thread's first call threw and its next call, an update,
\* has succeeded
ScopedRelease_witness ==
  \E t \in Threads : /\ ip[t] = 2 /\ prog[t][1].kind # "read" /\ prog[t][1].fn = "throw"
                     /\ pc[t] = "uw_ret" /\ result[t] = "true"

\* ---- progress of a single call -----------------------------------------
ReadPcs == {"r_tick", "r_inc", "r_load", "r_fn", "r_dec"}
UpdateWeakPcs == {"uw_left", "uw_right", "uw_bar", "uw_cas", "uw_new", "uw_old",
                  "uw_tick", "uw_inc", "uw_copy", "uw_fn", "uw_pub", "uw_rel",
                  "uw_store", "uw_dec"}

\* how far into read / update_weak a position is
Rank(p) ==
  CASE p = "r_tick" -> 1 [] p = "r_inc" -> 2 [] p = "r_load" -> 3
    [] p = "r_fn" -> 4 [] p = "r_dec" -> 5
    [] p = "uw_left" -> 1 [] p = "uw_right" -> 2 [] p = "uw_bar" -> 3
    [] p = "uw_cas" -> 4 [] p = "uw_new" -> 5 [] p = "uw_old" -> 6
    [] p = "uw_tick" -> 7 [] p = "uw_inc" -> 8 [] p = "uw_copy" -> 9
    [] p = "uw_fn" -> 10 [] p = "uw_pub" -> 11 [] p = "uw_rel" -> 12
    [] p = "uw_store" -> 13 [] p = "uw_dec" -> 14 [] p = "uw_ret" -> 15
    [] OTHER -> 16

\* C9: a thread inside read can take its next step whatever the others are
\* doing, and each of its steps takes it further: read is over after five
ReadWaitFree ==
  /\ [](\A t \in Threads : pc[t] \in ReadPcs => ENABLED Step(t))
  /\ [][\A t \in Threads :
          (pc[t] \in ReadPcs /\ Stepped(t)) => Rank(pc'[t]) > Rank(pc[t])]_vars

\* a read has run to its end while a writer stands at the barrier
ReadWaitFree_witness ==
  \E r \in Threads, w \in Threads :
     /\ pc[r] = "r_dec" /\ result[r] = "true"
     /\ pc[w] = "uw_bar"

\* C10: a thread inside update_weak can take its next step whatever the
\* others are doing, and each step takes it further: update_weak has
\* returned after fourteen, never going back to the barrier or to a CAS
UpdateWeakReturns ==
  /\ [](\A t \in Threads : pc[t] \in UpdateWeakPcs => ENABLED Step(t))
  /\ [][\A t \in Threads :
          (pc[t] \in UpdateWeakPcs /\ Stepped(t)) => Rank(pc'[t]) > Rank(pc[t])]_vars

\* update_weak returns false from the barrier while a reader is registered
UpdateWeakReturns_witness ==
  \E r \in Threads, w \in Threads :
     /\ pc[r] = "r_fn"
     /\ pc[w] = "uw_ret" /\ result[w] = "false" /\ dalloc[w] = Null
     /\ is_barrier(queue_left[w]) /\ is_used(queue_right[w])

\* ---- progress of the writers -------------------------------------------
\* an update_weak that loads left and right now gets past the empty-queue
\* test and check_barrier
CanAllocate ==
  /\ left # right
  /\ is_barrier(left) => (right - left >= queue_size /\ ~is_used(right))

\* thread w is at the start of an attempt of update(inc)
Attempting(w) == pc[w] = "uw_left" /\ op[w] = Up(op[w].cell, "inc")

\* C11: a writer that keeps taking steps inside update(f), f returning true,
\* gets an update through even if every other thread is suspended where it
\* stands: wherever the others stand, an attempt the writer starts can
\* allocate (left, right and the counters are changed only by allocating,
\* releasing and registering, so an attempt that cannot allocate leaves them
\* as they are and the next attempt fails the same way)
WriterLockFree == \A w \in Threads : Attempting(w) => CanAllocate

\* ---- update with a functor that never agrees ---------------------------
\* client programs with an update whose functor returns false every time
VetoScenarios ==
  { [n |-> 1, prog |-> << <<Up(1, "veto")>>, <<Rd(1, "get"), Up(1, "inc")>> >>],
    [n |-> 2, prog |-> << <<Up(1, "veto")>>, <<Up(1, "throw"), Up(1, "inc")>> >>] }

InitVeto == InitOf(VetoScenarios)

SpecVeto == InitVeto /\ [][Next]_vars

\* every thread but those inside update(veto) has made all its calls
OthersDone ==
  \A t \in Threads : op[t].fn # "veto" => (pc[t] = "idle" /\ ip[t] = Len(prog[t]))

\* C12: update leaves its loop only when an attempt returned true (or the
\* exception of f leaves it), and goes round again after every attempt that
\* returned false; the cell has then gone up by one for each update(inc)
\* that returned, once per call; a thread inside update(veto) stays inside
\* it and none of its steps changes a cell
UpdateLoop ==
  /\ [][\A t \in Threads :
          (pc[t] = "uw_ret" /\ op[t].kind = "update" /\ Stepped(t)) =>
             IF result[t] = "false"
               THEN pc'[t] = "uw_left" /\ op'[t] = op[t]
               ELSE pc'[t] = "idle" /\ result[t] \in {"true", "throw"}]_vars
  /\ [][\A t \in Threads :
          op[t] = Up(op[t].cell, "veto") => (op'[t] = op[t] /\ (Stepped(t) => Visible' = Visible))]_vars
  /\ [](OthersDone => \A c \in Cells :
          /\ content[data[c]] = committed[c]
          /\ committed[c] = CallsOf(Up(c, "inc")))

\* update(veto) is in its third attempt, its functor having returned false
\* twice, while the update(inc) of the other thread has returned
UpdateLoop_witness ==
  \E t \in Threads : /\ op[t] = Up(1, "veto") /\ pc[t] = "uw_ret" /\ result[t] = "false"
                     /\ data_new[t] # Null /\ left >= 3
                     /\ OthersDone /\ committed[1] = 1

\* ---- calls made by a functor -------------------------------------------
\* functors of update_weak / update that themselves call into a cell of the
\* type, as the functor of atomic_list::erase_after_weak does:
\*   weak_c    if( ! cell[c].update_weak( inc ) ) return false; (*data)++; return true
\*   strong_c  cell[c].update( inc ); (*data)++; return true
NestFunctors == {"weak_1", "weak_2", "strong_1", "strong_2"}

InnerOp(f) ==
  CASE f = "weak_1" -> Uw(1, "inc")
    [] f = "weak_2" -> Uw(2, "inc")
    [] f = "strong_1" -> Up(1, "inc")
    [] f = "strong_2" -> Up(2, "inc")

\* the functor of frame t starts its call
FnCall(t) ==
  /\ pc[t] = "uw_fn"
  /\ op[t].fn \in NestFunctors
  /\ op' = [op EXCEPT ![Inner(t)] = InnerOp(op[t].fn)]
  /\ pc' = [pc EXCEPT ![t] = "fn_wait", ![Inner(t)] = "uw_left"]
  /\ UNCHANGED << shared, queue_left, queue_right, data_new, data_old, ticket,
                  dalloc, pos, result, rptr, rval, prog, ip, committed, barrier_seen >>

\* the call returns into the functor, which returns false if the call did and
\* otherwise changes its object and returns true
FnReturn(t) ==
  /\ pc[t] = "fn_wait"
  /\ pc[Inner(t)] = "uw_ret"
  /\ op[Inner(t)].kind = "update_weak" \/ result[Inner(t)] # "false"
  /\ committed' = IF result[Inner(t)] = "true"
                    THEN [committed EXCEPT ![op[Inner(t)].cell] = @ + 1]
                    ELSE committed
  /\ op' = [op EXCEPT ![Inner(t)] = NoOp]
  /\ queue_left' = [queue_left EXCEPT ![Inner(t)] = 0]
  /\ queue_right' = [queue_right EXCEPT ![Inner(t)] = 0]
  /\ data_new' = [data_new EXCEPT ![Inner(t)] = Null]
  /\ data_old' = [data_old EXCEPT ![Inner(t)] = Null]
  /\ ticket' = [ticket EXCEPT ![Inner(t)] = 0]
  /\ dalloc' = [dalloc EXCEPT ![Inner(t)] = Null]
  /\ pos' = [pos EXCEPT ![Inner(t)] = 0]
  /\ IF result[Inner(t)] = "true"
       THEN /\ content' = [content EXCEPT ![data_new[t]] = @ + 1]
            /\ pc' = [pc EXCEPT ![Inner(t)] = "idle", ![t] = "uw_pub"]
            /\ result' = [result EXCEPT ![Inner(t)] = "none"]
       ELSE /\ pc' = [pc EXCEPT ![Inner(t)] = "idle", ![t] = "uw_rel"]
            /\ result' = [result EXCEPT ![Inner(t)] = "none", ![t] = "false"]
            /\ UNCHANGED content
  /\ UNCHANGED << queue_size, queue, left, right, counters, data, rptr, rval,
                  prog, ip, barrier_seen >>

\* a step of update_weak, or of the loop of update, in frame f
UpdateWeakStep(f) ==
  \/ LoadLeft(f) \/ LoadRight(f) \/ CheckBarrier(f) \/ AllocateCas(f)
  \/ ReadQueue(f) \/ LoadData(f) \/ GuardTicket(f) \/ GuardInc(f)
  \/ Copy(f) \/ ApplyFn(f) \/ Publish(f)
  \/ ReleaseAdd(f) \/ ReleaseStore(f) \/ GuardDec(f)
  \/ Retry(f)

StepNested(t) ==
  \/ /\ ~(pc[t] = "uw_fn" /\ op[t].fn \in NestFunctors)
     /\ Step(t)
  \/ FnCall(t)
  \/ /\ pc[t] = "fn_wait"
     /\ UpdateWeakStep(Inner(t))
  \/ FnReturn(t)

NextNested ==
  /\ \E t \in Threads : StepNested(t)
  /\ UNCHANGED << observed, reference, listvars >>

NestedScenarios ==
  { \* into the same cell, next to a reader and a writer of it
    [n |-> 2, prog |-> << <<Uw(1, "weak_1")>>, <<Rd(1, "get"), Up(1, "inc")>> >>],
    \* into another cell, the functor's own object taken at an odd position
    [n |-> 2, prog |-> << <<Uw(1, "inc"), Uw(1, "weak_2")>>, <<Uw(2, "inc")>> >>],
    \* a queue of one
    [n |-> 1, prog |-> << <<Uw(1, "weak_1")>>, <<Uw(2, "inc")>> >>],
    \* update inside the functor
    [n |-> 2, prog |-> << <<Uw(1, "inc"), Uw(1, "strong_1")>>, <<>> >>],
    [n |-> 2, prog |-> << <<Up(1, "strong_2")>>, <<Uw(1, "inc")>> >>] }

InitNested == InitOf(NestedScenarios)

SpecNested == InitNested /\ [][NextNested]_vars

\* ---- the pool with calls nested in functors ----------------------------
\* frame f holds an object it allocated; the object of a frame whose functor
\* is inside a call stays allocated for as long as that call lasts
HoldingF(f) == Holding(f) \/ pc[f] = "fn_wait"

PendingF(p) == \E f \in Frames : pc[f] = "uw_store" /\ pos[f] = p

StoredF == { p \in FreeRange : ~PendingF(p) }

\* frame f runs an update_weak whose functor calls update_weak on the cell
\* that f itself updates
SameCell(f) ==
  /\ op[f].kind = "update_weak"
  /\ op[f].fn \in NestFunctors
  /\ InnerOp(op[f].fn) = Uw(op[f].cell, "inc")

\* the call was made by a functor that calls update_weak; i is its frame
WeakInner(i) == op[i].kind = "update_weak" /\ i \notin Threads

\* C13: update_weak called by the functor of an update_weak, on the same
\* cell or on another: every step of the inner call takes it further and it
\* can always take its next step, so it is back in the functor after at most
\* fourteen; right - left plus the objects held is N0 throughout; no object
\* is twice among the stored positions of [left, right) and none of them is
\* a current; with every call over, the N0 objects are all back; and an outer
\* call on the cell the inner call updated cannot pass its publish CAS,
\* changes nothing other threads see and returns false
UpdateWeakReentrant ==
  /\ [][\A i \in Frames :
          (WeakInner(i) /\ pc[i] \in UpdateWeakPcs /\ Stepped(i)) => Rank(pc'[i]) > Rank(pc[i])]_vars
  /\ [](\A t \in Threads :
          /\ (WeakInner(Inner(t)) /\ pc[Inner(t)] \in UpdateWeakPcs) => ENABLED UpdateWeakStep(Inner(t))
          /\ (WeakInner(Inner(t)) /\ pc[Inner(t)] = "uw_ret") => ENABLED FnReturn(t))
  /\ [](right - left + Cardinality({ f \in Frames : HoldingF(f) }) = queue_size)
  /\ [](/\ \A p \in StoredF, q \in StoredF : p # q => At(p) # At(q)
        /\ \A p \in StoredF, c \in Cells : At(p) # data[c] /\ At(p) # Null)
  /\ []((\A f \in Frames : pc[f] \in {"idle", "uw_ret"}) => Cardinality(StoredF) = queue_size)
  /\ [](\A t \in Threads : SameCell(t) =>
          /\ pc[t] = "uw_pub" => data[op[t].cell] # data_old[t]
          /\ pc[t] \in {"uw_rel", "uw_store", "uw_dec", "uw_ret"} => result[t] = "false")
  /\ [][\A t \in Threads : (SameCell(t) /\ Stepped(t)) => Visible' = Visible]_vars

\* the inner update_weak published to the cell and returned its object, and
\* the outer call on the same cell has returned its own and is about to
\* return false
UpdateWeakReentrant_witness ==
  \E t \in Threads :
     /\ SameCell(t) /\ pc[t] = "uw_ret" /\ result[t] = "false"
     /\ data_new[t] # Null /\ data_old[t] # data[op[t].cell]
     /\ content[data[op[t].cell]] = content[data_old[t]] + 1
     /\ pc[Inner(t)] = "idle"
     /\ right - left = queue_size

\* the functor of t is inside update, the next allocation position is a
\* multiple of N0 and the call holds no object and has published nothing
Stuck(t) ==
  /\ pc[t] = "fn_wait"
  /\ op[Inner(t)].kind = "update"
  /\ is_barrier(left)
  /\ pc[Inner(t)] \in {"uw_left", "uw_right", "uw_bar", "uw_cas", "uw_ret"}
  /\ pc[Inner(t)] = "uw_ret" => result[Inner(t)] = "false"

\* C14: update called by the functor of an update / update_weak can spin for
\* ever: once the next allocation position is a multiple of N0 while the
\* nested update holds nothing, that stays so whatever step any thread
\* takes; left never moves, every update_weak of the nested update returns
\* false from the barrier (or from the empty-queue test) because the object
\* of the outer call is outstanding, and the nested update never returns
NestedUpdateSpins ==
  /\ [][\A t \in Threads : Stuck(t) => (Stuck(t)' /\ left' = left)]_vars
  /\ [](\A t \in Threads : Stuck(t) => ~ENABLED FnReturn(t))
  /\ [](\A t \in Threads : (Stuck(t) /\ pc[Inner(t)] = "uw_left") => ~CanAllocate)

\* the nested update has made an attempt that failed at the barrier and is
\* about to make another, with no other thread inside a call
NestedUpdateSpins_witness ==
  \E t \in Threads :
     /\ Stuck(t) /\ pc[Inner(t)] = "uw_ret"
     /\ queue_size > 1 /\ left > 0
     /\ ENABLED Retry(Inner(t))
     /\ \A u \in Threads \ {t} : pc[u] = "idle"

\* ---- the order of the updates of a cell --------------------------------
\* writer t has loaded data_old and not yet tried to publish
Loaded(t) == pc[t] \in {"uw_tick", "uw_inc", "uw_copy", "uw_fn", "uw_pub"}

\* the step is a publish CAS of t that succeeds
Publishes(t) == pc[t] = "uw_pub" /\ result'[t] = "true"

\* C15: the value of a cell counts the updates published on it (every
\* functor that publishes increments).  While a writer holds the object it
\* allocated, the object it loaded as current is not allocated to any other
\* writer, so if the cell still points to it at the publish CAS the value
\* behind it is the one the writer copied and nothing was published in
\* between; every publish therefore raises the value other threads see by
\* exactly one: it is f applied to the value published just before
AbaFree ==
  /\ [](\A t \in Threads, w \in Threads :
          (Loaded(t) /\ w # t /\ (Loaded(w) \/ pc[w] = "uw_old")) => data_new[w] # data_old[t])
  /\ [](\A t \in Threads :
          (pc[t] = "uw_pub" /\ data[op[t].cell] = data_old[t])
             => content[data_new[t]] = content[data[op[t].cell]] + 1)
  /\ [][\A t \in Threads :
          Publishes(t) => /\ data[op[t].cell] = data_old[t]
                          /\ Visible'[op[t].cell] = << data_new[t], Visible[op[t].cell][2] + 1 >>]_vars

\* a writer's publish CAS has failed because the other writer published
\* after it loaded data_old, and the object it had loaded is free again
AbaFree_witness ==
  \E t \in Threads :
     /\ pc[t] = "uw_rel" /\ result[t] = "false" /\ op[t].fn = "inc"
     /\ data[op[t].cell] # data_old[t]
     /\ IsFree(data_old[t])

\* ---- what the reads of a thread see ------------------------------------
\* the observer notes the value of the cell when read loads the pointer and
\* the value a finished read saw
Observe(t) ==
  /\ rseen' = IF pc[t] = "r_load"
                THEN [rseen EXCEPT ![t] = content[data[op[t].cell]]]
                ELSE rseen
  /\ rlast' = IF pc[t] = "r_dec"
                THEN [rlast EXCEPT ![t] = rval[t]]
                ELSE rlast

NextObserved ==
  /\ \E t \in Threads : Step(t) /\ Observe(t)
  /\ UNCHANGED << reference, listvars >>

ObservedScenarios ==
  { [n |-> 1, prog |-> << <<Rd(1, "get"), Rd(1, "get")>>,
                          Repeat(Up(1, "inc"), UpdatesPerWriter) \o <<Uw(1, "veto")>> >>],
    [n |-> 2, prog |-> << <<Rd(1, "get"), Rd(1, "get")>>,
                          <<Up(1, "inc"), Uw(1, "throw"), Uw(1, "inc")>> >>] }

InitObserved == InitOf(ObservedScenarios)

SpecObserved == InitObserved /\ [][NextObserved]_vars

\* C16: the functor of a read sees a value published on the cell no earlier
\* than the one current when the read loaded the pointer (the values of a
\* cell are published in increasing order: rseen is the one current at the
\* load, content[data] the latest), and a thread's next read does not see an
\* earlier value than its previous one
ReadVisibility ==
  \A r \in Threads :
    pc[r] = "r_dec" =>
      /\ rseen[r] <= rval[r]
      /\ rval[r] <= content[data[op[r].cell]]
      /\ rlast[r] <= rval[r]

\* ---- the usage counters ------------------------------------------------
\* the threads registered in counter i
RegisteredIn(i) == { t \in Threads : Registered(t) /\ counter_index(ticket[t]) = i }

\* C17: each usage counter is the number of registered readers and writers
\* whose ticket maps to it; a guard keeps its ticket from the increment to
\* the decrement, so it decrements the counter it incremented; no counter
\* goes below zero and both are zero when no thread is inside a call
CounterBalance ==
  /\ [](\A i \in {0, 1} : counters[i] = Cardinality(RegisteredIn(i)) /\ counters[i] >= 0)
  /\ []((\A t \in Threads : pc[t] = "idle") => (counters[0] = 0 /\ counters[1] = 0))
  /\ [][\A t \in Threads : (Registered(t) /\ Registered(t)') => ticket'[t] = ticket[t]]_vars
  /\ [][\A t \in Threads :
          (Registered(t) /\ ~Registered(t)' /\ Stepped(t))
             => counters' = [counters EXCEPT ![counter_index(ticket[t])] = @ - 1]]_vars

\* a reader is registered in one counter and a writer in the other, right
\* having moved into the other half of the ring between the two
CounterBalance_witness ==
  \E r \in Threads, w \in Threads :
     /\ pc[r] = "r_fn" /\ pc[w] = "uw_fn"
     /\ counter_index(ticket[r]) # counter_index(ticket[w])
     /\ counters[0] = 1 /\ counters[1] = 1

\* ---- atomic_data_mutex -------------------------------------------------
\* what a call returned: <<"value", v>> from read, <<"true", 0>>,
\* <<"false", 0>> from update_weak and update, <<"throw", 0>> for an exception
Returned(t) ==
  IF pc[t] = "r_dec"
    THEN IF result[t] = "throw" THEN << "throw", 0 >> ELSE << "value", rval[t] >>
    ELSE << result[t], 0 >>

\* the record of the results of the calls on atomic_data
Log(t) ==
  rets' = IF pc'[t] = "idle" /\ pc[t] \in {"r_dec", "uw_ret"}
            THEN [rets EXCEPT ![t] = Append(@, Returned(t))]
            ELSE rets

\* the threads have made all their calls on atomic_data, but for those that
\* never return from update(veto)
Settled == OthersDone /\ \A t \in Threads : ip[t] = Len(prog[t])

\* what fn( data ) returns under the lock of atomic_data_mutex
MutexResult(o) ==
  IF o.kind = "read"
    THEN IF o.fn = "throw" THEN << "throw", 0 >> ELSE << "value", mutex_data[o.cell] >>
    ELSE IF o.fn = "inc" THEN << "true", 0 >>
         ELSE IF o.fn = "veto" THEN << "false", 0 >> ELSE << "throw", 0 >>

\* thread t makes the next call of its program on the mutex cell:
\*   read         lock; return fn( data )
\*   update_weak  lock; return fn( data )   -- fn works on the stored object
\*   update       while( ! update_weak( fn ) );
\* an update whose functor returned false stays in its loop
MutexCall(t) ==
  /\ Settled
  /\ mip[t] < Len(prog[t])
  /\ LET o == prog[t][mip[t] + 1] IN
       /\ o.kind # "read" => mutex_data[o.cell] < MaxLeft
       /\ mutex_data' = IF o.kind = "read"
                          THEN mutex_data
                          ELSE [mutex_data EXCEPT ![o.cell] = @ + 1]
       /\ IF o.kind = "update" /\ o.fn = "veto"
            THEN UNCHANGED << mip, mrets >>
            ELSE /\ mip' = [mip EXCEPT ![t] = @ + 1]
                 /\ mrets' = [mrets EXCEPT ![t] = Append(@, MutexResult(o))]
  /\ UNCHANGED << shared, pc, op, queue_left, queue_right, data_new, data_old,
                  ticket, dalloc, pos, result, rptr, rval, prog, ip, committed,
                  barrier_seen, observed, rets, listvars >>

NextMutex ==
  \/ /\ \E t \in Threads : Step(t) /\ Log(t)
     /\ UNCHANGED << observed, mutex_data, mip, mrets, listvars >>
  \/ \E t \in Threads : MutexCall(t)

MutexScenarios ==
  { \* one thread
    [n |-> 1, prog |-> << <<Uw(1, "veto"), Rd(1, "get"), Uw(1, "inc")>>, << >> >>],
    [n |-> 2, prog |-> << <<Up(1, "inc"), Rd(1, "get"), Up(1, "inc")>>, << >> >>],
    \* two threads
    [n |-> 2, prog |-> << <<Up(1, "inc"), Rd(1, "get")>>, <<Up(1, "inc"), Uw(1, "throw")>> >>],
    [n |-> 1, prog |-> << <<Rd(1, "throw"), Up(1, "inc")>>, <<Uw(1, "inc"), Rd(1, "get")>> >>] }

InitMutex == InitOf(MutexScenarios)

SpecMutex == InitMutex /\ [][NextMutex]_vars

\* every call that returns on atomic_data has been made on the mutex cells too
MutexDone ==
  /\ Settled
  /\ \A t \in Threads : Len(mrets[t]) = Len(rets[t])

\* only one thread makes calls
Sequential == \E t \in Threads : \A u \in Threads \ {t} : prog[u] = << >>

\* whether each call returned true, returned false, threw or returned a value
Verdicts(s) == [k \in 1..Len(s) |-> s[k][1]]

\* every call ended the same way on the two kinds of cell
SameVerdicts == \A t \in Threads : Verdicts(rets[t]) = Verdicts(mrets[t])

\* C18: the same calls with the same functors, each ending the same way on
\* both, leave an atomic_data cell and an atomic_data_mutex cell with the
\* same value, and made by one thread their reads return the same values
MutexEquivalence ==
  (MutexDone /\ SameVerdicts) =>
    /\ \A c \in Cells : content[data[c]] = mutex_data[c]
    /\ Sequential => rets = mrets

\* ---- atomic_list (atomic_list.h) ---------------------------------------
\* A node of the list is an atomic_data< node, N0 >.  update_weak on a node
\* is taken in two steps: the load of its current object together with the
\* run of the functor on the private copy, and the publish CAS, which
\* succeeds only if the node still has the object that was loaded (AbaFree);
\* "ver" stands for the identity of that object.  update_weak may also
\* return false before its functor runs (empty queue, barrier, CAS on left).

\* calls of insert_after_weak / erase_after_weak the threads make in all
ListOps == 3
\* nodes inserted before the threads start
PreInserted == 3

\* atomic_list::list, the head node
list == 1
\* the pre-inserted node the test marks as locked
LockedNode == 3

NodeIds == 1..(1 + PreInserted + ListOps * Cardinality(Threads))
PreNodes == 2..(1 + PreInserted)

NoNode == [live |-> FALSE, locked |-> FALSE, deleted |-> FALSE, data |-> 0, next |-> Null,
           ver |-> 0]

\* ret is the iterator the latest call of the thread returned: its node, Null
\* for the empty iterator
NoLocals == [it |-> Null, value |-> 0, node0 |-> NoNode, node_next |-> Null,
             node1 |-> NoNode, node_after |-> Null, ret |-> Null, answer |-> "none"]

\* ... and with b, the bool the latest call on an iterator returned
Answer(b) == [NoLocals EXCEPT !.answer = IF b THEN "true" ELSE "false"]

cellvars == << shared, pc, op, queue_left, queue_right, data_new, data_old, ticket,
               dalloc, pos, result, rptr, rval, prog, ip, committed, barrier_seen >>

\* the list after the test has populated it: list -> 2 -> 3 -> ..., node 3
\* locked, each node holding its own number as data
InitList ==
  /\ InitCells({ [n |-> 1, prog |-> << << >>, << >> >>] })
  /\ nodes = [n \in NodeIds |->
                IF n <= 1 + PreInserted
                  THEN [live |-> TRUE, locked |-> (n = LockedNode), deleted |-> FALSE,
                        data |-> IF n = list THEN 0 ELSE n,
                        next |-> IF n < 1 + PreInserted THEN n + 1 ELSE Null, ver |-> 0]
                  ELSE NoNode]
  /\ list_pc = [t \in Threads |-> "idle"]
  /\ locals = [t \in Threads |-> NoLocals]
  /\ history = [calls |-> 0, inserted |-> {}, erased |-> {}, unlocked |-> {},
                locker |-> [n \in NodeIds |-> 0]]

\* the node a new atomic_node gets
Fresh == CHOOSE n \in NodeIds : ~nodes[n].live /\ \A m \in NodeIds : m < n => nodes[m].live

\* insert_after_weak( pos, value ): pos.value->update_weak loads the node and
\* runs the functor, which returns false on a locked node and else links
\* node_new after its copy of the node
InsertLoad(t) ==
  /\ list_pc[t] = "idle"
  /\ history.calls < ListOps
  /\ \E p \in NodeIds :
       /\ nodes[p].live
       /\ \/ /\ list_pc' = [list_pc EXCEPT ![t] = "idle"]
             /\ locals' = [locals EXCEPT ![t] = NoLocals]
          \/ /\ ~nodes[p].locked
             /\ list_pc' = [list_pc EXCEPT ![t] = "i_cas"]
             /\ locals' = [locals EXCEPT ![t] = [NoLocals EXCEPT !.it = p, !.node0 = nodes[p],
                                                               !.value = history.calls + 1]]
  /\ history' = [history EXCEPT !.calls = @ + 1]
  /\ UNCHANGED nodes

\* InsertCas as it would be if the functor linked node_new to the node itself
\* instead of to a copy that is published by a CAS
InsertCas_inplace(t) ==
  /\ list_pc[t] = "i_cas"
  /\ nodes' = [nodes EXCEPT
                 ![locals[t].it] = [@ EXCEPT !.next = Fresh, !.ver = @ + 1],
                 ![Fresh] = [live |-> TRUE, locked |-> FALSE, deleted |-> FALSE,
                             data |-> locals[t].value,
                             next |-> locals[t].node0.next, ver |-> 0]]
  /\ \/ /\ nodes[locals[t].it].ver = locals[t].node0.ver
        /\ history' = [history EXCEPT !.inserted = @ \cup {Fresh}]
        /\ locals' = [locals EXCEPT ![t] = [NoLocals EXCEPT !.ret = Fresh]]
     \/ /\ nodes[locals[t].it].ver # locals[t].node0.ver
        /\ locals' = [locals EXCEPT ![t] = NoLocals]
        /\ UNCHANGED history
  /\ list_pc' = [list_pc EXCEPT ![t] = "idle"]

\* InsertCas as it would be if update_weak stored its copy without comparing
\* the pointer of the node with the one it loaded
InsertCas_store(t) ==
  /\ list_pc[t] = "i_cas"
  /\ nodes' = [nodes EXCEPT
                 ![locals[t].it] = [locals[t].node0 EXCEPT !.next = Fresh,
                                                           !.ver = nodes[locals[t].it].ver + 1],
                 ![Fresh] = [live |-> TRUE, locked |-> FALSE, deleted |-> FALSE,
                             data |-> locals[t].value,
                             next |-> locals[t].node0.next, ver |-> 0]]
  /\ history' = [history EXCEPT !.inserted = @ \cup {Fresh}]
  /\ locals' = [locals EXCEPT ![t] = [NoLocals EXCEPT !.ret = Fresh]]
  /\ list_pc' = [list_pc EXCEPT ![t] = "idle"]

\* ... and its publish CAS; insert_after_weak returns node_new or nothing
InsertCas(t) ==
  /\ list_pc[t] = "i_cas"
  /\ \/ /\ nodes[locals[t].it].ver = locals[t].node0.ver
        /\ nodes' = [nodes EXCEPT
                       ![locals[t].it] = [locals[t].node0 EXCEPT !.next = Fresh, !.ver = @ + 1],
                       ![Fresh] = [live |-> TRUE, locked |-> FALSE, deleted |-> FALSE,
                                   data |-> locals[t].value,
                                   next |-> locals[t].node0.next, ver |-> 0]]
        /\ history' = [history EXCEPT !.inserted = @ \cup {Fresh}]
        /\ locals' = [locals EXCEPT ![t] = [NoLocals EXCEPT !.ret = Fresh]]
     \/ /\ locals' = [locals EXCEPT ![t] = NoLocals]
        /\ UNCHANGED << nodes, history >>
  /\ list_pc' = [list_pc EXCEPT ![t] = "idle"]

\* erase_after_weak( pos ): the outer update_weak loads the node and its
\* functor returns false on a locked node or one with no next
EraseLoad(t) ==
  /\ list_pc[t] = "idle"
  /\ history.calls < ListOps
  /\ \E p \in NodeIds :
       /\ nodes[p].live
       /\ \/ /\ list_pc' = [list_pc EXCEPT ![t] = "idle"]
             /\ locals' = [locals EXCEPT ![t] = NoLocals]
          \/ /\ ~nodes[p].locked
             /\ nodes[p].next # Null
             /\ list_pc' = [list_pc EXCEPT ![t] = "e_lock"]
             /\ locals' = [locals EXCEPT ![t] = [NoLocals EXCEPT !.it = p, !.node0 = nodes[p],
                                                               !.node_next = nodes[p].next]]
  /\ history' = [history EXCEPT !.calls = @ + 1]
  /\ UNCHANGED nodes

\* EraseLockLoad as it would be if the inner functor did not test locked
EraseLockLoad_anyway(t) ==
  /\ list_pc[t] = "e_lock"
  /\ \/ /\ list_pc' = [list_pc EXCEPT ![t] = "idle"]
        /\ locals' = [locals EXCEPT ![t] = NoLocals]
     \/ /\ list_pc' = [list_pc EXCEPT ![t] = "e_lockcas"]
        /\ locals' = [locals EXCEPT ![t].node1 = nodes[locals[t].node_next],
                                    ![t].node_after = nodes[locals[t].node_next].next]
  /\ UNCHANGED << nodes, history >>

\* EraseLockLoad as it would be if node_next were not set to nullptr when the
\* node could not be locked
EraseLockLoad_keep(t) ==
  /\ list_pc[t] = "e_lock"
  /\ \/ /\ list_pc' = [list_pc EXCEPT ![t] = "e_unlock"]
        /\ UNCHANGED locals
     \/ /\ ~nodes[locals[t].node_next].locked
        /\ list_pc' = [list_pc EXCEPT ![t] = "e_lockcas"]
        /\ locals' = [locals EXCEPT ![t].node1 = nodes[locals[t].node_next],
                                    ![t].node_after = nodes[locals[t].node_next].next]
  /\ UNCHANGED << nodes, history >>

\* node_next->update_weak inside the outer functor: loads the next node; its
\* functor returns false on a locked node, else locks its copy and takes
\* node_after from it.  On false: node_next = nullptr, the outer functor and
\* the outer update_weak return false and erase_after_weak returns nothing
EraseLockLoad(t) ==
  /\ list_pc[t] = "e_lock"
  /\ \/ /\ list_pc' = [list_pc EXCEPT ![t] = "idle"]
        /\ locals' = [locals EXCEPT ![t] = NoLocals]
     \/ /\ ~nodes[locals[t].node_next].locked
        /\ list_pc' = [list_pc EXCEPT ![t] = "e_lockcas"]
        /\ locals' = [locals EXCEPT ![t].node1 = nodes[locals[t].node_next],
                                    ![t].node_after = nodes[locals[t].node_next].next]
  /\ UNCHANGED << nodes, history >>

\* EraseLockCas as it would be if the inner functor marked the node deleted
\* when it locks it
EraseLockCas_mark(t) ==
  /\ list_pc[t] = "e_lockcas"
  /\ \/ /\ nodes[locals[t].node_next].ver = locals[t].node1.ver
        /\ nodes' = [nodes EXCEPT ![locals[t].node_next] =
                                     [locals[t].node1 EXCEPT !.locked = TRUE, !.deleted = TRUE,
                                                             !.ver = @ + 1]]
        /\ history' = [history EXCEPT !.locker[locals[t].node_next] = t]
        /\ list_pc' = [list_pc EXCEPT ![t] = "e_cas"]
        /\ UNCHANGED locals
     \/ /\ list_pc' = [list_pc EXCEPT ![t] = "idle"]
        /\ locals' = [locals EXCEPT ![t] = NoLocals]
        /\ UNCHANGED << nodes, history >>

\* EraseLockCas as it would be if the erase locked the node at pos instead of
\* the node after it
EraseLockCas_pos(t) ==
  /\ list_pc[t] = "e_lockcas"
  /\ \/ /\ nodes[locals[t].node_next].ver = locals[t].node1.ver
        /\ nodes' = [nodes EXCEPT ![locals[t].it] = [@ EXCEPT !.locked = TRUE, !.ver = @ + 1]]
        /\ history' = [history EXCEPT !.locker[locals[t].it] = t]
        /\ list_pc' = [list_pc EXCEPT ![t] = "e_cas"]
        /\ UNCHANGED locals
     \/ /\ list_pc' = [list_pc EXCEPT ![t] = "idle"]
        /\ locals' = [locals EXCEPT ![t] = NoLocals]
        /\ UNCHANGED << nodes, history >>

\* EraseLockCas as it would be if the functor did not set locked
EraseLockCas_nolock(t) ==
  /\ list_pc[t] = "e_lockcas"
  /\ \/ /\ nodes[locals[t].node_next].ver = locals[t].node1.ver
        /\ nodes' = [nodes EXCEPT ![locals[t].node_next] = [locals[t].node1 EXCEPT !.ver = @ + 1]]
        /\ history' = [history EXCEPT !.locker[locals[t].node_next] = t]
        /\ list_pc' = [list_pc EXCEPT ![t] = "e_cas"]
        /\ UNCHANGED locals
     \/ /\ list_pc' = [list_pc EXCEPT ![t] = "idle"]
        /\ locals' = [locals EXCEPT ![t] = NoLocals]
        /\ UNCHANGED << nodes, history >>

\* the publish CAS of the inner update_weak: the next node is locked
EraseLockCas(t) ==
  /\ list_pc[t] = "e_lockcas"
  /\ \/ /\ nodes[locals[t].node_next].ver = locals[t].node1.ver
        /\ nodes' = [nodes EXCEPT ![locals[t].node_next] =
                                     [locals[t].node1 EXCEPT !.locked = TRUE, !.ver = @ + 1]]
        /\ history' = [history EXCEPT !.locker[locals[t].node_next] = t]
        /\ list_pc' = [list_pc EXCEPT ![t] = "e_cas"]
        /\ UNCHANGED locals
     \/ /\ list_pc' = [list_pc EXCEPT ![t] = "idle"]
        /\ locals' = [locals EXCEPT ![t] = NoLocals]
        /\ UNCHANGED << nodes, history >>

\* EraseCas as it would be if the outer functor did not set
\* node0->next = node_after
EraseCas_linked(t) ==
  /\ list_pc[t] = "e_cas"
  /\ \/ /\ nodes[locals[t].it].ver = locals[t].node0.ver
        /\ nodes' = [nodes EXCEPT ![locals[t].it] = [locals[t].node0 EXCEPT !.ver = @ + 1]]
        /\ list_pc' = [list_pc EXCEPT ![t] = "e_mark"]
     \/ /\ list_pc' = [list_pc EXCEPT ![t] = "e_unlock"]
        /\ UNCHANGED nodes
  /\ UNCHANGED << locals, history >>

\* EraseCas as it would be if erase_after_weak returned on a failed outer
\* update_weak without unlocking node_next
EraseCas_return(t) ==
  /\ list_pc[t] = "e_cas"
  /\ \/ /\ nodes[locals[t].it].ver = locals[t].node0.ver
        /\ nodes' = [nodes EXCEPT ![locals[t].it] =
                                     [locals[t].node0 EXCEPT !.next = locals[t].node_after, !.ver = @ + 1]]
        /\ list_pc' = [list_pc EXCEPT ![t] = "e_mark"]
        /\ UNCHANGED locals
     \/ /\ list_pc' = [list_pc EXCEPT ![t] = "idle"]
        /\ locals' = [locals EXCEPT ![t] = NoLocals]
        /\ UNCHANGED nodes
  /\ UNCHANGED history

\* node0->next = node_after; return true; and the publish CAS of the outer
\* update_weak
EraseCas(t) ==
  /\ list_pc[t] = "e_cas"
  /\ \/ /\ nodes[locals[t].it].ver = locals[t].node0.ver
        /\ nodes' = [nodes EXCEPT ![locals[t].it] =
                                     [locals[t].node0 EXCEPT !.next = locals[t].node_after, !.ver = @ + 1]]
        /\ list_pc' = [list_pc EXCEPT ![t] = "e_mark"]
     \/ /\ list_pc' = [list_pc EXCEPT ![t] = "e_unlock"]
        /\ UNCHANGED nodes
  /\ UNCHANGED << locals, history >>

\* if( ! r ) and node_next is set: node_next->update( locked = false ), the
\* attempt of update that publishes; erase_after_weak returns nothing
EraseUnlock(t) ==
  /\ list_pc[t] = "e_unlock"
  /\ nodes' = [nodes EXCEPT ![locals[t].node_next] = [@ EXCEPT !.locked = FALSE, !.ver = @ + 1]]
  /\ history' = [history EXCEPT !.unlocked = @ \cup {locals[t].node_next}]
  /\ list_pc' = [list_pc EXCEPT ![t] = "idle"]
  /\ locals' = [locals EXCEPT ![t] = NoLocals]

\* EraseMark as it would be if erase_after_weak returned the node without the
\* update that marks it
EraseMark_forget(t) ==
  /\ list_pc[t] = "e_mark"
  /\ history' = [history EXCEPT !.erased = @ \cup {locals[t].node_next}]
  /\ list_pc' = [list_pc EXCEPT ![t] = "idle"]
  /\ locals' = [locals EXCEPT ![t] = [NoLocals EXCEPT !.ret = locals[t].node_next]]
  /\ UNCHANGED nodes

\* EraseMark as it would be if the erase released its lock when it marks the
\* node
EraseMark_unlock(t) ==
  /\ list_pc[t] = "e_mark"
  /\ nodes' = [nodes EXCEPT ![locals[t].node_next] =
                               [@ EXCEPT !.deleted = TRUE, !.locked = FALSE, !.ver = @ + 1]]
  /\ history' = [history EXCEPT !.erased = @ \cup {locals[t].node_next}]
  /\ list_pc' = [list_pc EXCEPT ![t] = "idle"]
  /\ locals' = [locals EXCEPT ![t] = [NoLocals EXCEPT !.ret = locals[t].node_next]]

\* node_next->update( deleted = true ); erase_after_weak returns node_next
EraseMark(t) ==
  /\ list_pc[t] = "e_mark"
  /\ nodes' = [nodes EXCEPT ![locals[t].node_next] = [@ EXCEPT !.deleted = TRUE, !.ver = @ + 1]]
  /\ history' = [history EXCEPT !.erased = @ \cup {locals[t].node_next}]
  /\ list_pc' = [list_pc EXCEPT ![t] = "idle"]
  /\ locals' = [locals EXCEPT ![t] = [NoLocals EXCEPT !.ret = locals[t].node_next]]

ListStep(t) ==
  \/ InsertLoad(t) \/ InsertCas(t)
  \/ EraseLoad(t) \/ EraseLockLoad(t) \/ EraseLockCas(t) \/ EraseCas(t)
  \/ EraseUnlock(t) \/ EraseMark(t)

NextList ==
  /\ \E t \in Threads : ListStep(t)
  /\ UNCHANGED << cellvars, observed, reference >>

SpecList == InitList /\ [][NextList]_vars


\* ---- C19: list conservation ----------------------------------------------
RECURSIVE Walk(_, _)
\* the nodes an iteration meets from node n on, following next
Walk(n, k) == IF n = Null \/ k = 0 THEN {} ELSE {n} \cup Walk(nodes[n].next, k - 1)

\* the nodes reachable from the head, the head excluded
Reachable == Walk(nodes[list].next, Cardinality(NodeIds))

\* atomic_list::size()
size == Cardinality(Reachable)

\* no call of insert_after_weak or erase_after_weak is in progress
ListQuiescent == \A t \in Threads : list_pc[t] = "idle"

\* the nodes unlinked by an erase_after_weak that has yet to return them
BeingErased == { locals[t].node_next : t \in { u \in Threads : list_pc[u] = "e_mark" } }

\* C19: at any quiescent point the nodes reachable from the head are exactly
\* the nodes successfully inserted (the pre-inserted ones included) minus the
\* nodes returned by successful erases, and size() is their difference in
\* number; at every point no inserted node is lost (an unreachable one was
\* erased or is being returned by the erase that unlinked it) and no erased
\* node is reachable again
ListConservation ==
  /\ ListQuiescent =>
       /\ Reachable = (PreNodes \cup history.inserted) \ history.erased
       /\ size = PreInserted + Cardinality(history.inserted) - Cardinality(history.erased)
  /\ (PreNodes \cup history.inserted) \ Reachable \subseteq history.erased \cup BeingErased
  /\ Reachable \cap (history.erased \cup BeingErased) = {}
  /\ Reachable \subseteq PreNodes \cup history.inserted

\* the threads have made all their calls, as many inserts as erases
\* succeeded, one of the erased nodes is a node a thread inserted, and
\* size() is k again
ListConservation_witness ==
  /\ ListQuiescent
  /\ history.calls = ListOps
  /\ Cardinality(history.inserted) = Cardinality(history.erased)
  /\ history.inserted \cap history.erased # {}
  /\ size = PreInserted

\* ---- C20: the permanently locked node ------------------------------------
\* C20: the node the test locked stays in the list, locked and not deleted,
\* and a step that clears locked on a node is the unlock of the
\* erase_after_weak call that locked this node
PermanentLock ==
  /\ [](/\ LockedNode \in Reachable
        /\ nodes[LockedNode].locked
        /\ ~nodes[LockedNode].deleted)
  /\ [][\A n \in NodeIds :
          nodes[n].locked /\ ~nodes'[n].locked =>
            \E t \in Threads : /\ list_pc[t] = "e_unlock"
                               /\ list_pc'[t] = "idle"
                               /\ locals[t].node_next = n
                               /\ history.locker[n] = t]_vars

\* an erase_after_weak that lost its outer CAS has unlocked the node it had
\* locked, another one has removed a node, the threads have made their calls
\* and the locked node is still in the list and locked
PermanentLock_witness ==
  /\ ListQuiescent
  /\ history.calls = ListOps
  /\ history.unlocked # {}
  /\ history.erased # {}
  /\ LockedNode \in Reachable
  /\ nodes[LockedNode].locked


\* ---- C21: deleted nodes stay locked ---------------------------------------
\* C21: a deleted node is locked in every state, and a step never clears
\* deleted nor the locked flag of a deleted node
DeletedLocked ==
  /\ [](\A n \in NodeIds : nodes[n].deleted => nodes[n].locked)
  /\ [][\A n \in NodeIds :
          nodes[n].deleted => nodes'[n].deleted /\ nodes'[n].locked]_vars

\* a node is deleted while another erase_after_weak is about to clear the
\* lock it took
DeletedLocked_witness ==
  /\ \E n \in NodeIds : nodes[n].deleted
  /\ \E t \in Threads : list_pc[t] = "e_unlock"


\* ---- C22: the head ---------------------------------------------------------
\* C22: the head is never locked, never deleted, never the successor of a
\* node, never the node an erase works on or a call returns; and an
\* erase_after_weak at the head that unlinks a node unlinks the successor of
\* the head: the head then points at what that node pointed at
HeadSentinel ==
  /\ [](/\ nodes[list].live
        /\ ~nodes[list].locked
        /\ ~nodes[list].deleted
        /\ \A n \in NodeIds : nodes[n].next # list
        /\ list \notin history.erased
        /\ \A t \in Threads : locals[t].node_next # list /\ locals[t].ret # list)
  /\ [][\A t \in Threads :
          list_pc[t] = "e_cas" /\ list_pc'[t] = "e_mark" /\ locals[t].it = list =>
            /\ locals[t].node_next = nodes[list].next
            /\ nodes'[list].next = nodes[locals[t].node_next].next
            /\ locals[t].node_next \notin Reachable']_vars

\* an erase_after_weak at the head has unlinked the first node, which a
\* thread had inserted there
HeadSentinel_witness ==
  \E t \in Threads :
    /\ list_pc[t] = "e_mark"
    /\ locals[t].it = list
    /\ locals[t].node_next \in history.inserted


\* ---- C23: a locked node is frozen as a predecessor -------------------------
\* C23: a step that changes the next pointer of a node (the commit of an
\* insert_after_weak or erase_after_weak at that node) finds the node
\* unlocked and leaves it unlocked: next never changes while the node is
\* locked, also when the lock was taken after the call loaded the node
LockedFrozen ==
  [][\A n \in NodeIds :
       nodes[n].live /\ nodes'[n].next # nodes[n].next =>
         ~nodes[n].locked /\ ~nodes'[n].locked]_vars

\* an insert_after_weak has loaded a node and linked its new node to a copy,
\* and before its CAS an erase_after_weak locked that node
LockedFrozen_witness ==
  \E t \in Threads :
    /\ list_pc[t] = "i_cas"
    /\ nodes[locals[t].it].locked
    /\ ~locals[t].node0.locked


\* ---- C24: at most one erase per node ---------------------------------------
\* the thread is in an erase_after_weak that has locked node_next
HoldsVictim(t) == list_pc[t] \in {"e_cas", "e_unlock", "e_mark"}

\* C24: two erase_after_weak calls never hold the same node as their locked
\* node_next, a call never holds a node an erase has returned, and the node a
\* successful erase returns was returned by no erase before
EraseOnce ==
  /\ [](\A t, u \in Threads :
          t # u /\ HoldsVictim(t) /\ HoldsVictim(u) =>
            locals[t].node_next # locals[u].node_next)
  /\ [](\A t \in Threads :
          HoldsVictim(t) => locals[t].node_next \notin history.erased)
  /\ [][\A t \in Threads :
          list_pc[t] = "e_mark" /\ list_pc'[t] = "idle" =>
            /\ locals[t].node_next \notin history.erased
            /\ locals'[t].ret = locals[t].node_next
            /\ history'.erased = history.erased \cup {locals[t].node_next}]_vars

\* erases on adjacent nodes: one call has unlinked a node while the other
\* call, which had that node as its pos and had locked the node after it, lost
\* its outer CAS
EraseOnce_witness ==
  \E t, u \in Threads :
    /\ list_pc[t] = "e_mark"
    /\ list_pc[u] = "e_unlock"
    /\ locals[u].it = locals[t].node_next


\* ---- C25: deleted is set only after unlinking ------------------------------
\* C25: no node reachable from the head is deleted, and the step that sets
\* deleted on a node finds it unreachable
DeletedUnreachable ==
  /\ [](\A n \in Reachable : ~nodes[n].deleted)
  /\ [][\A n \in NodeIds :
          ~nodes[n].deleted /\ nodes'[n].deleted => n \notin Reachable]_vars

\* a node a thread had inserted between two nodes is deleted, and its
\* neighbours are still in the list
DeletedUnreachable_witness ==
  \E n \in history.inserted :
    /\ nodes[n].deleted
    /\ nodes[n].next \in Reachable
    /\ \E m \in Reachable : nodes[m].next = nodes[n].next


\* ---- C27: unlock on failed delete ------------------------------------------
\* C27: an erase_after_weak that has locked node_next leaves by the mark or,
\* when its outer update_weak failed, by the unlock: this step clears locked
\* on node_next, which is then in the list and not deleted, and returns the
\* empty iterator; a node locked by an erase is held by that call or was
\* unlinked by it, so a failed erase that has returned left nothing locked
UnlockOnFailedErase ==
  /\ [][\A t \in Threads :
          list_pc[t] = "e_cas" /\ list_pc'[t] # "e_cas" =>
            \/ list_pc'[t] = "e_mark" /\ nodes'[locals[t].it].next = locals[t].node_after
            \/ list_pc'[t] = "e_unlock" /\ nodes' = nodes]_vars
  /\ [][\A t \in Threads :
          list_pc[t] = "e_unlock" /\ list_pc'[t] # "e_unlock" =>
            /\ list_pc'[t] = "idle"
            /\ nodes[locals[t].node_next].locked
            /\ ~nodes'[locals[t].node_next].locked
            /\ ~nodes'[locals[t].node_next].deleted
            /\ locals[t].node_next \in Reachable'
            /\ locals'[t].ret = Null]_vars
  /\ [](\A n \in NodeIds :
          nodes[n].locked /\ history.locker[n] # 0 =>
            \/ HoldsVictim(history.locker[n]) /\ locals[history.locker[n]].node_next = n
            \/ n \in history.erased)

\* a failed erase_after_weak has returned: the node it had locked is unlocked
\* and in the list, and the erase of another thread that made it fail holds
\* the node that was its pos
UnlockOnFailedErase_witness ==
  \E n \in history.unlocked :
    /\ ~nodes[n].locked
    /\ n \in Reachable
    /\ history.locker[n] # 0
    /\ list_pc[history.locker[n]] = "idle"
    /\ locals[history.locker[n]].ret = Null
    /\ \E u \in Threads : HoldsVictim(u) /\ nodes[locals[u].node_next].next = n


\* ---- C30: the two outcomes of insert_after_weak ----------------------------
\* the step ends a call of insert_after_weak (or of erase_after_weak) whose
\* update_weak returned false at once, the functor not run or the node locked
FailsAtOnce == history'.calls = history.calls + 1 /\ list_pc' = list_pc

\* C30: a call of insert_after_weak( pos, v ) ends either with an iterator to
\* a node that did not exist before, is unlocked, not deleted, holds v, is the
\* successor of pos and has the node as its next that pos had just before,
\* nothing else in the list being changed, or with the empty iterator and the
\* list as it was
InsertOutcome ==
  [][/\ FailsAtOnce =>
          /\ nodes' = nodes
          /\ history'.inserted = history.inserted
          /\ \E t \in Threads :
               /\ locals'[t].ret = Null
               /\ \A u \in Threads \ {t} : locals'[u] = locals[u]
     /\ \A t \in Threads :
          list_pc[t] = "i_cas" /\ list_pc'[t] = "idle" =>
            \/ /\ locals'[t].ret = Null
               /\ nodes' = nodes
               /\ history'.inserted = history.inserted
            \/ /\ locals'[t].ret # Null
               /\ ~nodes[locals'[t].ret].live
               /\ nodes'[locals'[t].ret] =
                    [live |-> TRUE, locked |-> FALSE, deleted |-> FALSE,
                     data |-> locals[t].value, next |-> nodes[locals[t].it].next, ver |-> 0]
               /\ nodes'[locals[t].it] =
                    [nodes[locals[t].it] EXCEPT !.next = locals'[t].ret, !.ver = @ + 1]
               /\ \A m \in NodeIds \ {locals[t].it, locals'[t].ret} : nodes'[m] = nodes[m]
               /\ history'.inserted = history.inserted \cup {locals'[t].ret}]_vars

\* one insert_after_weak has returned its new node, which stands before a
\* node another call had inserted, and the call of the other thread at the
\* same pos is about to lose its CAS
InsertOutcome_witness ==
  \E t, u \in Threads :
    /\ list_pc[t] = "idle"
    /\ locals[t].ret \in history.inserted
    /\ nodes[locals[t].ret].next \in history.inserted
    /\ list_pc[u] = "i_cas"
    /\ nodes[locals[u].it].next = locals[t].ret
    /\ nodes[locals[u].it].ver # locals[u].node0.ver


\* ---- C29: push_front -------------------------------------------------------
\* the thread is in the insert_after_weak( iterator{ list }, value ) that
\* push_front consists of, its functor run
InPushFront(t) == list_pc[t] = "i_cas" /\ locals[t].it = list

\* C29: a call of push_front never ends with the empty iterator
PushFrontNeverFails ==
  [][\A t \in Threads :
       InPushFront(t) /\ list_pc'[t] = "idle" => locals'[t].ret # Null]_vars


\* ---- the iterator (atomic_list.h) -------------------------------------------
\* The data the threads store through an iterator is 0 (value of NoLocals),
\* which none of the pre-inserted nodes holds.

\* is_deleted(): value->read loads the object of the node ...
IsDeletedLoad(t) ==
  /\ list_pc[t] = "idle"
  /\ history.calls < ListOps
  /\ \E p \in NodeIds :
       /\ nodes[p].live
       /\ locals' = [locals EXCEPT ![t] = [NoLocals EXCEPT !.it = p, !.node0 = nodes[p]]]
  /\ list_pc' = [list_pc EXCEPT ![t] = "d_fn"]
  /\ history' = [history EXCEPT !.calls = @ + 1]
  /\ UNCHANGED nodes

\* ... and the functor returns node0->deleted of that object
IsDeletedFn(t) ==
  /\ list_pc[t] = "d_fn"
  /\ locals' = [locals EXCEPT ![t] = Answer(locals[t].node0.deleted)]
  /\ list_pc' = [list_pc EXCEPT ![t] = "idle"]
  /\ UNCHANGED << nodes, history >>

\* iterator::update_weak( data ): value->update_weak loads the node and runs
\* the functor, which returns false on a locked node and else stores data in
\* its copy
IterWeakLoad(t) ==
  /\ list_pc[t] = "idle"
  /\ history.calls < ListOps
  /\ \E p \in NodeIds :
       /\ nodes[p].live
       /\ \/ /\ list_pc' = [list_pc EXCEPT ![t] = "idle"]
             /\ locals' = [locals EXCEPT ![t] = Answer(FALSE)]
          \/ /\ ~nodes[p].locked
             /\ list_pc' = [list_pc EXCEPT ![t] = "w_cas"]
             /\ locals' = [locals EXCEPT ![t] = [NoLocals EXCEPT !.it = p, !.node0 = nodes[p]]]
  /\ history' = [history EXCEPT !.calls = @ + 1]
  /\ UNCHANGED nodes

\* ... and its publish CAS
IterWeakCas(t) ==
  /\ list_pc[t] = "w_cas"
  /\ \/ /\ nodes[locals[t].it].ver = locals[t].node0.ver
        /\ nodes' = [nodes EXCEPT ![locals[t].it] =
                                     [locals[t].node0 EXCEPT !.data = locals[t].value, !.ver = @ + 1]]
        /\ locals' = [locals EXCEPT ![t] = Answer(TRUE)]
     \/ /\ locals' = [locals EXCEPT ![t] = Answer(FALSE)]
        /\ UNCHANGED nodes
  /\ list_pc' = [list_pc EXCEPT ![t] = "idle"]
  /\ UNCHANGED history

\* iterator::update( data ) is called
IterUpdateCall(t) ==
  /\ list_pc[t] = "idle"
  /\ history.calls < ListOps
  /\ \E p \in NodeIds :
       /\ nodes[p].live
       /\ locals' = [locals EXCEPT ![t] = [NoLocals EXCEPT !.it = p]]
  /\ list_pc' = [list_pc EXCEPT ![t] = "u_deleted"]
  /\ history' = [history EXCEPT !.calls = @ + 1]
  /\ UNCHANGED nodes

\* if( is_deleted() ) return false;
IterUpdateDeleted(t) ==
  /\ list_pc[t] = "u_deleted"
  /\ IF nodes[locals[t].it].deleted
       THEN /\ locals' = [locals EXCEPT ![t] = Answer(FALSE)]
            /\ list_pc' = [list_pc EXCEPT ![t] = "idle"]
       ELSE /\ list_pc' = [list_pc EXCEPT ![t] = "u_load"]
            /\ UNCHANGED locals
  /\ UNCHANGED << nodes, history >>

\* if( update_weak( data ) ) break;  -- the load and the functor; on false
\* the loop takes another turn
IterUpdateLoad(t) ==
  /\ list_pc[t] = "u_load"
  /\ \/ /\ list_pc' = [list_pc EXCEPT ![t] = "u_deleted"]
        /\ UNCHANGED locals
     \/ /\ ~nodes[locals[t].it].locked
        /\ list_pc' = [list_pc EXCEPT ![t] = "u_cas"]
        /\ locals' = [locals EXCEPT ![t].node0 = nodes[locals[t].it]]
  /\ UNCHANGED << nodes, history >>

\* ... the publish CAS; return true after the loop
IterUpdateCas(t) ==
  /\ list_pc[t] = "u_cas"
  /\ \/ /\ nodes[locals[t].it].ver = locals[t].node0.ver
        /\ nodes' = [nodes EXCEPT ![locals[t].it] =
                                     [locals[t].node0 EXCEPT !.data = locals[t].value, !.ver = @ + 1]]
        /\ locals' = [locals EXCEPT ![t] = Answer(TRUE)]
        /\ list_pc' = [list_pc EXCEPT ![t] = "idle"]
     \/ /\ list_pc' = [list_pc EXCEPT ![t] = "u_deleted"]
        /\ UNCHANGED << nodes, locals >>
  /\ UNCHANGED history

IterStep(t) ==
  \/ IsDeletedLoad(t) \/ IsDeletedFn(t)
  \/ IterWeakLoad(t) \/ IterWeakCas(t)
  \/ IterUpdateCall(t) \/ IterUpdateDeleted(t) \/ IterUpdateLoad(t) \/ IterUpdateCas(t)

\* threads that erase next to threads that work through iterators
NextIter ==
  /\ \E t \in Threads :
       \/ EraseLoad(t) \/ EraseLockLoad(t) \/ EraseLockCas(t) \/ EraseCas(t)
       \/ EraseUnlock(t) \/ EraseMark(t)
       \/ IterStep(t)
  /\ UNCHANGED << cellvars, observed, reference >>

SpecIter == InitList /\ [][NextIter]_vars


\* ---- C26: tombstone visibility ---------------------------------------------
\* with this step thread t starts an is_deleted() and loads the node
Inspects(t) == list_pc[t] = "idle" /\ list_pc'[t] = "d_fn"

Tomb == 16

\* node0->deleted of the object holding v
Deleted(v) == v >= Tomb

\* the functor of the update that ends erase_after_weak:
\* node0->deleted = true; return true
ApplyMark(t) ==
  /\ pc[t] = "uw_fn"
  /\ op[t].fn = "mark"
  /\ content' = [content EXCEPT ![data_new[t]] = @ + Tomb]
  /\ pc' = [pc EXCEPT ![t] = "uw_pub"]
  /\ UNCHANGED << queue_size, queue, left, right, counters, data, op, queue_left,
                  queue_right, data_new, data_old, ticket, dalloc, pos, result,
                  rptr, rval, prog, ip, committed, barrier_seen >>

StepNode(t) ==
  \/ /\ ~(pc[t] = "uw_fn" /\ op[t].fn = "mark")
     /\ Step(t)
  \/ ApplyMark(t)

NextNode ==
  /\ \E t \in Threads : StepNode(t)
  /\ UNCHANGED << observed, reference, listvars >>

\* one thread is in the is_deleted() of an iterator::update on node 1; the
\* other stores data in node 1 through an iterator and erases node 2
NodeScenarios ==
  { [n |-> 2, prog |-> << <<Rd(1, "get")>>,
                          <<Up(1, "inc"), Up(1, "inc"), Up(2, "mark")>> >>] }

InitNode == InitOf(NodeScenarios)

SpecNode == InitNode /\ [][NextNode]_vars

\* ---- C28: updates through an iterator --------------------------------------
\* C28 (iterator::update returns false only if the node has been deleted):
\* when the is_deleted() of iterator::update sees deleted = true, so that
\* update returns false, the node has been marked deleted
UpdateFalseOnlyIfDeleted ==
  \A t \in Threads :
    pc[t] = "r_dec" /\ Deleted(rval[t]) => Deleted(content[data[op[t].cell]])


\* ---- C34: slot accounting ----------------------------------------------
\* the writers between their successful CAS on left and their right.add( 1 )
InFlight == { t \in Threads : Holding(t) }

\* C34 (slot accounting): right - left is N0 less the number of objects held
\* by writers that allocated and have not yet done right.add( 1 ), so it is
\* within 0..N0; the current object of a cell is neither among the free
\* positions nor one of the objects held
SlotAccounting ==
  /\ right - left = queue_size - Cardinality(InFlight)
  /\ right - left \in 0..queue_size
  /\ \A c \in Cells :
       /\ ~IsFree(data[c])
       /\ \A p \in FreeRange : ~Pending(p) => At(p) # data[c]
       /\ ~HeldByWriter(data[c])
       /\ ~Replaced(data[c])

\* both writers of a queue of two hold an object while the cell's current is
\* one that was published
SlotAccounting_witness ==
  /\ queue_size = 2
  /\ Cardinality(InFlight) = 2
  /\ right = left
  /\ data[1] # InitialObject(1)


\* ---- C38: an attempt that fails before it allocates --------------------
\* positions of update_weak up to the CAS on left
PreAllocPcs == {"uw_left", "uw_right", "uw_bar", "uw_cas"}

\* thread t is about to return from an update_weak that allocated nothing
FailedEarly(t) == pc[t] = "uw_ret" /\ data_new[t] = Null

\* C38 (pre-allocation failures change nothing): every step of update_weak up
\* to and including a failed empty-queue test, a failed check_barrier or a
\* lost CAS on left leaves left, right, both counters, the queue, every
\* cell's pointer and every object as they were, and takes the call straight
\* to its return with the result false: the functor is not run, nothing was
\* allocated and no counter_guard was built
NoEffectBeforeAllocation ==
  /\ [][\A t \in Threads :
          (pc[t] \in PreAllocPcs /\ Stepped(t) /\ pc'[t] # "uw_new") =>
             /\ shared' = shared
             /\ pc'[t] \in PreAllocPcs \cup {"uw_ret"}
             /\ pc'[t] = "uw_ret" => (result'[t] = "false" /\ FailedEarly(t)')]_vars
  /\ [](\A t \in Threads :
          FailedEarly(t) => /\ result[t] = "false"
                            /\ dalloc[t] = Null /\ data_old[t] = Null /\ ticket[t] = 0)
  /\ [][\A t \in Threads :
          (FailedEarly(t) /\ Stepped(t)) => (shared' = shared /\ committed' = committed)]_vars

\* an update_weak returns false having found the queue empty
NoEffectBeforeAllocation_witness ==
  \E t \in Threads : /\ FailedEarly(t)
                     /\ queue_left[t] = queue_right[t]
                     /\ queue_left[t] > 0


\* ---- C32: allocation at a lap boundary ---------------------------------
\* the step is the successful CAS on left of thread t
Allocates(t) == pc[t] = "uw_cas" /\ pc'[t] = "uw_new"

\* the lap of position p of the ring
Lap(p) == p \div queue_size

\* C32 (allocation at a lap boundary): the CAS on left of an allocation at a
\* position that is a multiple of N0 succeeds only when right - left = N0 and
\* no writer is between its allocation and its right.add( 1 ); so the
\* objects held at any time were all allocated in the lap that left is in,
\* and there are at most N0 of them
LapBoundary ==
  /\ [][\A t \in Threads :
          (Allocates(t) /\ is_barrier(queue_left[t])) =>
             /\ right - left = queue_size
             /\ InFlight = {}]_vars
  /\ [](/\ Cardinality(InFlight) <= queue_size
        /\ \A t \in InFlight : /\ queue_left[t] < left
                               /\ Lap(queue_left[t]) = Lap(left - 1))

\* a writer has allocated the first position of the second lap of a queue of
\* two, after the other writer gave up at the barrier because one element of
\* the first lap was still held
LapBoundary_witness ==
  \E t \in Threads, u \in Threads :
     /\ queue_size = 2
     /\ pc[t] = "uw_new" /\ queue_left[t] = queue_size
     /\ pc[u] = "uw_ret" /\ result[u] = "false" /\ data_new[u] = Null
     /\ queue_left[u] = queue_size /\ queue_right[u] - queue_left[u] = 1


\* ---- C35: the object an allocation hands out ---------------------------
\* thread t has allocated an object and not published it
Unpublished(t) == pc[t] \in {"uw_new", "uw_old", "uw_tick", "uw_inc", "uw_copy",
                             "uw_fn", "uw_pub"}

\* the object thread t was handed by its allocation
Owned(t) == IF pc[t] = "uw_new" THEN At(queue_left[t]) ELSE data_new[t]

\* a release has taken the array element of position p and not stored into it
StoreDue(p) ==
  \E u \in Threads : pc[u] = "uw_store" /\ pos[u] % array_size = p % array_size

\* C35 (exclusive slot ownership): when the CAS on left of an allocation of
\* position q succeeds, no release that took q with right.add( 1 ) still has
\* its store into queue[q % array_size] to do, and none is due when the
\* element is read; a writer with its store to do holds its usage counter,
\* and no allocation passes the barrier meanwhile; so the object handed out
\* is an object, is held by no other writer, is not on its way back to the
\* queue, is not stored in [left, right) and is not the current of a cell
\* up to the publish
ExclusiveOwnership ==
  /\ [][\A t \in Threads :
          Allocates(t) => /\ ~StoreDue(queue_left[t])
                          /\ is_barrier(queue_left[t]) =>
                               \A u \in Threads : pc[u] # "uw_store"]_vars
  /\ [](\A t \in Threads :
          /\ pc[t] = "uw_new" => ~StoreDue(queue_left[t])
          /\ pc[t] = "uw_store" => counters[counter_index(ticket[t])] > 0
          /\ Unpublished(t) =>
               /\ Owned(t) # Null
               /\ ~IsCurrent(Owned(t))
               /\ ~IsFree(Owned(t))
               /\ \A u \in Threads \ {t} :
                    /\ Unpublished(u) => Owned(u) # Owned(t)
                    /\ pc[u] \in {"uw_rel", "uw_store"} => dalloc[u] # Owned(t))

\* a writer holds an object that was a cell's current and was given back at
\* the position the writer allocated, while the other writer holds another
ExclusiveOwnership_witness ==
  \E t \in Threads, u \in Threads :
     /\ Unpublished(t) /\ pc[t] # "uw_new"
     /\ Owned(t) = InitialObject(1)
     /\ Unpublished(u) /\ u # t


\* ---- C36: where a release lands -----------------------------------------
\* the positions of the lap after the one left is in
NextLap == ((Lap(left - 1) + 1) * queue_size)..((Lap(left - 1) + 2) * queue_size - 1)

\* the positions of the lap left is in that have not been allocated
Unallocated == left..((Lap(left - 1) + 1) * queue_size - 1)

\* C36 (releases land in the next lap): the position a right.add( 1 ) of
\* ~deallocate_guard takes while left is in lap k is in [(k+1)*N0, (k+2)*N0),
\* left is still in lap k when the store is made, and the store goes to the
\* array element of that position, which is the element of no position of
\* lap k still to be allocated; so whether the object was replaced as current
\* or given back by a call that failed, it is handed out again only after the
\* barrier at (k+1)*N0 has been passed
ReleaseNextLap ==
  /\ [][\A t \in Threads :
          (pc[t] = "uw_rel" /\ Stepped(t)) => pos'[t] \in NextLap]_vars
  /\ [](\A t \in Threads :
          pc[t] = "uw_store" =>
             /\ pos[t] \in NextLap
             /\ \A q \in Unallocated : q % array_size # pos[t] % array_size)
  /\ [][\A t \in Threads :
          (pc[t] = "uw_store" /\ Stepped(t)) =>
             queue' = [queue EXCEPT ![pos[t] % array_size] = dalloc[t]]]_vars
  /\ [](\A p \in Stored : p \in NextLap => At(p) \in Live)

\* in the second lap of a queue of two, the object of a call that failed has
\* been stored at a position of the third lap
ReleaseNextLap_witness ==
  \E t \in Threads :
     /\ queue_size = 2
     /\ pc[t] = "uw_dec" /\ result[t] = "false"
     /\ Lap(left - 1) = 1
     /\ pos[t] \in NextLap
     /\ At(pos[t]) = data_new[t]


\* ---- C37: the counters wrap ---------------------------------------------
\* left and right are std::atomic<unsigned>: the program holds their values
\* modulo 2^w.  The width explored is small enough for the counters of the
\* runs above to wrap.
CounterBits == 2

Modulus == 2 ^ CounterBits

\* UInt as it would be for a counter that wraps at a value array_size does
\* not divide
UInt_odd(x) == x % (Modulus - 1)

\* the value an unsigned variable holds when the number stored in it is x
UInt(x) == x % Modulus

\* every number the program keeps in an unsigned variable or computes from one
CounterValues ==
  {left, right}
    \cup { queue_left[t] : t \in Threads } \cup { queue_right[t] : t \in Threads }
    \cup { ticket[t] : t \in Threads } \cup { pos[t] : t \in Threads }

FairScenarios ==
  { [n |-> 1, prog |-> << <<Rd(1, "get")>>, Repeat(Up(1, "inc"), UpdatesPerWriter) >>],
    [n |-> 2, prog |-> << <<Rd(1, "get")>>, Repeat(Up(1, "inc"), UpdatesPerWriter) >>],
    [n |-> 1, prog |-> << Repeat(Up(1, "inc"), UpdatesPerWriter), Repeat(Up(1, "inc"), UpdatesPerWriter) >>],
    [n |-> 2, prog |-> << Repeat(Up(1, "inc"), UpdatesPerWriter), Repeat(Up(1, "inc"), UpdatesPerWriter) >>] }

InitFair == InitOf(FairScenarios)

\* thread t does nothing but read
ReaderOnly(t) == \A i \in 1..Len(prog[t]) : prog[t][i].kind = "read"

\* while( i++ < iterations ): the loop of a reading thread starts over
ReadAgain(t) ==
  /\ pc[t] = "idle"
  /\ ip[t] = Len(prog[t])
  /\ ReaderOnly(t)
  /\ ip' = [ip EXCEPT ![t] = 0]
  /\ UNCHANGED << shared, pc, op, queue_left, queue_right, data_new, data_old,
                  ticket, dalloc, pos, result, rptr, rval, prog, committed,
                  barrier_seen >>

\* update: while( ! update_weak( fn ) ); -- the attempts past MaxLeft, which
\* the loop of update makes like every other
RetryOn(t) ==
  /\ pc[t] = "uw_ret"
  /\ op[t].kind = "update"
  /\ result[t] = "false"
  /\ left >= MaxLeft
  /\ pc' = [pc EXCEPT ![t] = "uw_left"]
  /\ ClearLocals(t)
  /\ UNCHANGED << shared, op, rptr, rval, prog, ip, committed, barrier_seen >>

\* the step is a compare_exchange_weak of thread t that fails although the
\* variable holds the expected value; such failures do not go on for ever
Spurious(t) ==
  \/ pc[t] = "uw_cas" /\ left = queue_left[t] /\ pc'[t] = "uw_ret"
  \/ pc[t] = "uw_pub" /\ data[op[t].cell] = data_old[t] /\ result'[t] = "false"

StepFair(t) ==
  \/ /\ Step(t)
     /\ ~Spurious(t)
  \/ RetryOn(t)
  \/ ReadAgain(t)

ThreadFair(t) == StepFair(t) /\ UNCHANGED << observed, reference, listvars >>

NextFair ==
  /\ \E t \in Threads : StepFair(t)
  /\ UNCHANGED << observed, reference, listvars >>

\* every thread is scheduled again and again
SpecFair == InitFair /\ [][NextFair]_vars /\ \A t \in Threads : WF_vars(ThreadFair(t))

\* some thread is inside update
InUpdate == \E t \in Threads : op[t].kind = "update" /\ pc[t] # "idle"

\* an update_weak made by update has published
UpdateSucceeded == \E t \in Threads : op[t].kind = "update" /\ result[t] = "true"

\* thread r built its counter_guard after all elements of the lap were back
RegisteredLate(r, w) ==
  /\ pc[r] \in {"r_load", "r_fn", "r_dec"}
  /\ ticket[r] = queue_right[w]

\* C33 (progress under fairness): when every thread is scheduled again and
\* again and functors return true, whenever a thread is inside update some
\* update succeeds later on, also next to a thread that reads without end;
\* a reader that took its ticket when right had the value the writer at the
\* barrier loaded is counted in the counter check_barrier does not look at
FairProgress ==
  /\ InUpdate ~> UpdateSucceeded
  /\ [](\A w \in Threads, r \in Threads :
          (pc[w] = "uw_bar" /\ RegisteredLate(r, w)) =>
             counter_index(ticket[r]) # 1 - counter_index(queue_right[w]))

\* a writer stands at the barrier of the second lap, about to find the
\* counter in use, next to a reader that has gone round its loop
FairProgress_witness ==
  \E w \in Threads, r \in Threads :
     /\ ReaderOnly(r) /\ pc[r] = "r_fn"
     /\ op[w].kind = "update" /\ pc[w] = "uw_bar"
     /\ queue_left[w] > 0
     /\ is_used(queue_right[w])
     /\ committed[1] > 0


\* ---- C40: the shape of the list -------------------------------------------
RECURSIVE Chain(_, _)
\* the nodes an iteration from node n meets, in order, k steps at most
Chain(n, k) == IF n = Null \/ k = 0 THEN << >> ELSE << n >> \o Chain(nodes[n].next, k - 1)

\* what an iteration from begin() meets; longer than the number of nodes if
\* it never comes to an end
FromBegin == Chain(nodes[list].next, Cardinality(NodeIds) + 1)

\* the nodes that insert_after_weak linked, those of the test included
Inserted == PreNodes \cup history.inserted

\* C40 (list well-formedness): in every state the iteration from the head
\* comes to nullptr, meets nodes that exist, no node twice and never the head;
\* no node it meets is deleted; and every inserted node that is not locked
\* is among them
WellFormed ==
  LET met == FromBegin
  IN  /\ Len(met) <= Cardinality(NodeIds)
      /\ \A i \in 1..Len(met) :
           /\ nodes[met[i]].live
           /\ met[i] # list
           /\ \A j \in 1..Len(met) : i # j => met[i] # met[j]
           /\ ~nodes[met[i]].deleted
      /\ \A n \in Inserted : ~nodes[n].locked => \E i \in 1..Len(met) : met[i] = n

\* between two calls: a node a thread inserted is in the list next to a node
\* that an erase had locked and unlocked again, and another node was erased
WellFormed_witness ==
  /\ ListQuiescent
  /\ \E n \in history.inserted : n \in Reachable /\ ~nodes[n].locked
  /\ \E n \in history.unlocked : n \in Reachable /\ ~nodes[n].locked
  /\ \E n \in history.erased : nodes[n].deleted


\* ---- the head of a list and empty() ----------------------------------------
\* Cell 1 is the head of an atomic_list, cell 2 the node the first push_front
\* links: it stays the last node of the list, its next is nullptr.  Linked is
\* added to the T0 of a cell when its next is set to a node.
Linked == 32

\* (bool) node0->next of the object holding v
HasNext(v) == v >= Linked

\* the functor of insert_after_weak, the node at pos not locked:
\* node0->next = node_new; return true
ApplyLink(t) ==
  /\ pc[t] = "uw_fn"
  /\ op[t].fn = "link"
  /\ content' = [content EXCEPT ![data_new[t]] = @ + Linked]
  /\ pc' = [pc EXCEPT ![t] = "uw_pub"]
  /\ UNCHANGED << queue_size, queue, left, right, counters, data, op, queue_left,
                  queue_right, data_new, data_old, ticket, dalloc, pos, result,
                  rptr, rval, prog, ip, committed, barrier_seen >>

StepHead(t) ==
  /\ \/ /\ ~(pc[t] = "uw_fn" /\ op[t].fn = "link")
        /\ Step(t)
     \/ ApplyLink(t)
  /\ Observe(t)

NextHead ==
  /\ \E t \in Threads : StepHead(t)
  /\ UNCHANGED << reference, listvars >>

\* one thread is in the empty() of a pop_front; the other calls push_front
\* and stores data in the last node through an iterator
HeadScenarios ==
  { [n |-> 2, prog |-> << <<Rd(1, "get")>>,
                          Repeat(Uw(1, "link"), 4) \o <<Uw(2, "inc")>> >>] }

InitHead == InitOf(HeadScenarios)

SpecHead == InitHead /\ [][NextHead]_vars

\* ---- C31: pop_front --------------------------------------------------------
\* C31 (pop_front returns an empty iterator only when the list was observed
\* empty): when the empty() of pop_front sees next = nullptr in the head, so
\* that pop_front returns an empty iterator, the next of the head was nullptr
\* when empty() loaded the head
PopEmptyOnlyIfEmpty ==
  \A t \in Threads :
    pc[t] = "r_dec" /\ op[t].cell = 1 /\ ~HasNext(rval[t]) => ~HasNext(rseen[t])


\* ---- C39: the objects erase_after_weak needs -------------------------------
\* erase_after_weak at the level of the queue: the update_weak on the node at
\* pos (cell 1) whose functor calls update_weak on the node after it (cell 2),
\* functor weak_2.  One thread makes attempt after attempt, alone; before the
\* first it may have made another update_weak, and the update that marks the
\* node follows an attempt.
CapacityScenarios ==
  { [n |-> 1, prog |-> << Repeat(Uw(1, "weak_2"), 3), << >> >>],
    [n |-> 1, prog |-> << <<Uw(1, "inc")>> \o Repeat(Uw(1, "weak_2"), 2), << >> >>],
    [n |-> 2, prog |-> << Repeat(Uw(1, "weak_2"), 3), << >> >>],
    [n |-> 2, prog |-> << <<Uw(1, "inc")>> \o Repeat(Uw(1, "weak_2"), 3), << >> >>],
    [n |-> 2, prog |-> << <<Uw(1, "weak_2"), Up(2, "inc")>> \o Repeat(Uw(1, "weak_2"), 2), << >> >>] }

InitCapacity == InitOf(CapacityScenarios)

SpecCapacity == InitCapacity /\ [][NextNested]_vars

\* thread t is in an attempt of erase_after_weak
Erasing(t) == op[t].kind = "update_weak" /\ op[t].fn \in NestFunctors

\* the values frame f loaded make update_weak return before it allocates: the
\* queue is empty, or the position is a multiple of N0 and not all elements
\* are back
Short(f) ==
  \/ queue_left[f] = queue_right[f]
  \/ is_barrier(queue_left[f]) /\ queue_right[f] - queue_left[f] < queue_size

\* the inner update_weak of t's attempt has returned false for want of an
\* object
InnerShort(t) ==
  /\ pc[t] = "fn_wait"
  /\ pc[Inner(t)] = "uw_ret"
  /\ result[Inner(t)] = "false"
  /\ Short(Inner(t))

\* the inner update_weak of t's attempt has returned false from a
\* compare_exchange_weak that found the expected value
InnerSpurious(t) ==
  /\ pc[Inner(t)] = "uw_ret"
  /\ result[Inner(t)] = "false"
  /\ \/ data_new[Inner(t)] = Null /\ queue_left[Inner(t)] = left
     \/ data_new[Inner(t)] # Null /\ data[op[Inner(t)].cell] = data_old[Inner(t)]

\* C39 (queue capacity needed by the list delete): an attempt holds the object
\* of the outer update_weak while the inner one allocates.  With N0 = 1 the
\* inner call finds left = right, at a multiple of N0 with not all elements
\* back, gets no further than the tests on the loaded counters, and no attempt
\* ever returns true.  For every N0, of a thread on its own: the outer call
\* never fails a test before its allocation, its two CASes find the expected
\* values; the inner call returns false for want of an object only when the
\* outer object was taken at the last position of a lap, and then the next
\* allocation is at the first position of a lap, where with N0 >= 2 it does
\* not happen again; and an inner call returns false for that reason or from
\* a compare_exchange_weak that found the expected value.  So with N0 >= 2
\* no two attempts in a row fail for want of an object.
EraseCapacity ==
  /\ [](\A t \in Threads :
          (queue_size = 1 /\ pc[t] = "fn_wait") =>
             /\ left = right
             /\ pc[Inner(t)] \in {"uw_left", "uw_right", "uw_ret"}
             /\ pc[Inner(t)] = "uw_ret" =>
                  /\ InnerShort(t)
                  /\ is_barrier(queue_left[Inner(t)])
                  /\ queue_right[Inner(t)] - queue_left[Inner(t)] < queue_size)
  /\ [](\A t \in Threads : (queue_size = 1 /\ Erasing(t)) => result[t] # "true")
  /\ [][\A t \in Threads :
          (Stepped(t) /\ pc[t] \in {"uw_right", "uw_bar"}) => pc'[t] # "uw_ret"]_vars
  /\ [](\A t \in Threads :
          /\ pc[t] = "uw_cas" => queue_left[t] = left
          /\ pc[t] = "uw_pub" => data[op[t].cell] = data_old[t])
  /\ [](\A t \in Threads :
          InnerShort(t) =>
             /\ queue_left[t] % queue_size = queue_size - 1
             /\ left = queue_left[t] + 1
             /\ is_barrier(left))
  /\ [](\A t \in Threads :
          (queue_size >= 2 /\ pc[t] = "fn_wait" /\ is_barrier(queue_left[t])) => ~InnerShort(t))
  /\ [][\A t \in Threads :
          (pc[t] = "fn_wait" /\ pc'[t] = "uw_rel") => (InnerShort(t) \/ InnerSpurious(t))]_vars

\* N0 = 2: after an update_weak that took the first object of a lap, an
\* attempt took the second and its inner call found the queue short; the
\* attempt after it took the two objects of the next lap and is about to
\* return true
EraseCapacity_witness ==
  \E t \in Threads :
     /\ queue_size = 2
     /\ ip[t] = 3 /\ prog[t][1].fn = "inc"
     /\ Erasing(t) /\ pc[t] = "uw_ret" /\ result[t] = "true"
     /\ queue_left[t] = 2 /\ left = 4
     /\ committed[2] = 1

====
